---- MODULE Spec2Model ----
(***************************************************************************)
(* Model of the resto-manage server: six tables (restaurants, users,       *)
(* subscriptions, customers, permissions, role_permissions) and the        *)
(* handlers that read and write them.  A table is the sequence of its rows *)
(* in insertion order; a serial column draws its value from seq.           *)
(***************************************************************************)
EXTENDS Integers, Sequences, FiniteSets, TLC

VARIABLES
    permissions,       \* rows of permissionsTable
    role_permissions,  \* rows of rolePermissionsTable
    restaurants,       \* rows of restaurantsTable
    users,             \* rows of usersTable
    subscriptions,     \* rows of subscriptionsTable
    customers,         \* rows of customersTable
    seq,               \* next value of each table's serial id
    now,               \* the clock read by new Date() and defaultNow()
    last,              \* the most recent call: operation, arguments, result
    hist,              \* what earlier calls returned and how many were made
    tasks              \* the executions in flight, each at one of its awaits

vars ==
    <<permissions, role_permissions, restaurants, users, subscriptions,
      customers, seq, now, last, hist, tasks>>

----------------------------------------------------------------------------
(* Bounds of the model *)

MaxTime == 1
MaxCalls == 2
MaxFixturePermissions == 1
MaxCustomers == 1
MaxUsers == 2
MaxRestaurants == 2
MaxSubscriptions == 2
MaxSwitches == 1

----------------------------------------------------------------------------
(* Values shared by all handlers *)

(* SQL NULL / JavaScript null.  TLC compares values of one kind only, so   *)
(* null is written per kind: Null in a text column, NullNum in a number or *)
(* timestamp column, NullRow where a handler returns a row or null.        *)
Null == "null"
NullNum == -1

NullRow ==
    [null |-> TRUE]

NoCall ==
    [op |-> "none"]

RECURSIVE Flatten(_)
Flatten(ss) ==
    IF Len(ss) = 0 THEN <<>> ELSE Head(ss) \o Flatten(Tail(ss))

Range(s) ==
    {s[i] : i \in 1..Len(s)}

----------------------------------------------------------------------------
(* seed_permissions.ts *)

DEFAULT_PERMISSIONS ==
    << [name |-> "customers:read", description |-> "View customer information",
        resource |-> "customers", action |-> "read"],
       [name |-> "customers:write", description |-> "Create and update customer information",
        resource |-> "customers", action |-> "write"],
       [name |-> "customers:delete", description |-> "Delete customer records",
        resource |-> "customers", action |-> "delete"],
       [name |-> "staff:read", description |-> "View staff information",
        resource |-> "staff", action |-> "read"],
       [name |-> "staff:write", description |-> "Create and update staff information",
        resource |-> "staff", action |-> "write"],
       [name |-> "staff:delete", description |-> "Delete staff records",
        resource |-> "staff", action |-> "delete"],
       [name |-> "settings:read", description |-> "View restaurant settings",
        resource |-> "settings", action |-> "read"],
       [name |-> "settings:write", description |-> "Modify restaurant settings",
        resource |-> "settings", action |-> "write"],
       [name |-> "billing:read", description |-> "View billing information",
        resource |-> "billing", action |-> "read"],
       [name |-> "billing:write", description |-> "Manage billing and subscriptions",
        resource |-> "billing", action |-> "write"],
       [name |-> "reports:read", description |-> "View reports and analytics",
        resource |-> "reports", action |-> "read"] >>

UserRoles ==
    <<"SUPER_ADMIN", "RESTAURANT_OWNER", "MANAGER", "STAFF">>

ROLE_PERMISSION_MAPPINGS ==
    [ SUPER_ADMIN |->
        << "customers:read", "customers:write", "customers:delete",
           "staff:read", "staff:write", "staff:delete",
           "settings:read", "settings:write",
           "billing:read", "billing:write",
           "reports:read" >>,
      RESTAURANT_OWNER |->
        << "customers:read", "customers:write", "customers:delete",
           "staff:read", "staff:write", "staff:delete",
           "settings:read", "settings:write",
           "billing:read", "billing:write",
           "reports:read" >>,
      MANAGER |->
        << "customers:read", "customers:write", "customers:delete",
           "staff:read", "staff:write",
           "reports:read" >>,
      STAFF |->
        << "customers:read",
           "reports:read" >> ]

(* db.insert(permissionsTable).values(v).returning(): the serial id is     *)
(* drawn first, then the unique constraint on name decides.                *)
InsertPermission(tbl, n, v, t) ==
    LET row == [id |-> n, name |-> v.name, description |-> v.description,
                resource |-> v.resource, action |-> v.action, created_at |-> t]
    IN  IF \E i \in 1..Len(tbl) : tbl[i].name = v.name
        THEN [err |-> "unique_violation", tbl |-> tbl, n |-> n + 1]
        ELSE [err |-> Null, tbl |-> Append(tbl, row), n |-> n + 1, row |-> row]

(* One pass of the loop body of seedDefaultPermissions, lines 62-83. *)
SeedOne_NoCheck(tbl, n, pd, t) ==
    LET ins == InsertPermission(tbl, n, pd, t)
    IN  IF ins.err = Null
        THEN [err |-> Null, tbl |-> ins.tbl, n |-> ins.n, row |-> ins.row]
        ELSE [err |-> ins.err, tbl |-> ins.tbl, n |-> ins.n]

SeedOne(tbl, n, pd, t) ==
    LET existingPermission == SelectSeq(tbl, LAMBDA r : r.name = pd.name)
    IN  IF Len(existingPermission) = 0
        THEN LET ins == InsertPermission(tbl, n, pd, t)
             IN  IF ins.err = Null
                 THEN [err |-> Null, tbl |-> ins.tbl, n |-> ins.n, row |-> ins.row]
                 ELSE [err |-> ins.err, tbl |-> ins.tbl, n |-> ins.n]
        ELSE [err |-> Null, tbl |-> tbl, n |-> n, row |-> existingPermission[1]]

(* The for loop of seedDefaultPermissions; a thrown error leaves the loop  *)
(* and keeps the rows inserted so far (no transaction).                    *)
RECURSIVE SeedLoop(_, _, _, _, _)
SeedLoop(i, tbl, n, createdPermissions, t) ==
    IF i > Len(DEFAULT_PERMISSIONS)
    THEN [err |-> Null, tbl |-> tbl, n |-> n, ret |-> createdPermissions]
    ELSE LET s == SeedOne(tbl, n, DEFAULT_PERMISSIONS[i], t)
         IN  IF s.err # Null
             THEN [err |-> s.err, tbl |-> s.tbl, n |-> s.n, ret |-> <<>>]
             ELSE SeedLoop(i + 1, s.tbl, s.n, Append(createdPermissions, s.row), t)

seedDefaultPermissionsResult(tbl, n, t) ==
    SeedLoop(1, tbl, n, <<>>, t)

Ids(rows) ==
    [i \in 1..Len(rows) |-> rows[i].id]

seedDefaultPermissions ==
    /\ hist.seed < MaxCalls
    /\ LET r == seedDefaultPermissionsResult(permissions, seq.permissions, now)
       IN  /\ permissions' = r.tbl
           /\ seq' = [seq EXCEPT !.permissions = r.n]
           /\ last' = [op |-> "seedDefaultPermissions", err |-> r.err, ret |-> r.ret]
           /\ hist' = [hist EXCEPT !.seed = @ + 1, !.seedIds = Ids(r.ret)]
    /\ UNCHANGED <<role_permissions, restaurants, users, subscriptions, customers, now,
                   tasks>>

(* Object.entries(ROLE_PERMISSION_MAPPINGS) walked role by role, name by   *)
(* name: the (role, permissionName) pairs in the order the loops visit.    *)
AssignPairs ==
    Flatten([r \in 1..Len(UserRoles) |->
               [k \in 1..Len(ROLE_PERMISSION_MAPPINGS[UserRoles[r]]) |->
                  <<UserRoles[r], ROLE_PERMISSION_MAPPINGS[UserRoles[r]][k]>>]])

(* permissionMap.get(name) after the forEach of lines 103-106: the id of   *)
(* the last row carrying the name, 0 (undefined, falsy) when there is none *)
PermissionMapGet(allPermissions, name) ==
    LET hits == {i \in 1..Len(allPermissions) : allPermissions[i].name = name}
    IN  IF hits = {} THEN 0
        ELSE allPermissions[CHOOSE i \in hits : \A j \in hits : j <= i].id

InsertRolePermission(tbl, n, role, permissionId, t) ==
    LET row == [id |-> n, role |-> role, permission_id |-> permissionId, created_at |-> t]
    IN  [tbl |-> Append(tbl, row), n |-> n + 1, row |-> row]

(* One pass of the inner loop body of assignDefaultRolePermissions,        *)
(* lines 113-144.  skip is the `continue` of line 117.                     *)
AssignOne_NoCheck(tbl, n, allPermissions, role, permissionName, t) ==
    LET permissionId == PermissionMapGet(allPermissions, permissionName)
    IN  IF permissionId = 0
        THEN [skip |-> TRUE, tbl |-> tbl, n |-> n]
        ELSE LET ins == InsertRolePermission(tbl, n, role, permissionId, t)
             IN  [skip |-> FALSE, tbl |-> ins.tbl, n |-> ins.n, row |-> ins.row]

AssignOne(tbl, n, allPermissions, role, permissionName, t) ==
    LET permissionId == PermissionMapGet(allPermissions, permissionName)
    IN  IF permissionId = 0
        THEN [skip |-> TRUE, tbl |-> tbl, n |-> n]
        ELSE LET existingRolePermission ==
                     SelectSeq(tbl, LAMBDA r : r.role = role /\ r.permission_id = permissionId)
             IN  IF Len(existingRolePermission) = 0
                 THEN LET ins == InsertRolePermission(tbl, n, role, permissionId, t)
                      IN  [skip |-> FALSE, tbl |-> ins.tbl, n |-> ins.n, row |-> ins.row]
                 ELSE [skip |-> FALSE, tbl |-> tbl, n |-> n, row |-> existingRolePermission[1]]

RECURSIVE AssignLoop(_, _, _, _, _, _)
AssignLoop(i, tbl, n, allPermissions, createdRolePermissions, t) ==
    IF i > Len(AssignPairs)
    THEN [tbl |-> tbl, n |-> n, ret |-> createdRolePermissions]
    ELSE LET a == AssignOne(tbl, n, allPermissions, AssignPairs[i][1], AssignPairs[i][2], t)
         IN  IF a.skip
             THEN AssignLoop(i + 1, a.tbl, a.n, allPermissions, createdRolePermissions, t)
             ELSE AssignLoop(i + 1, a.tbl, a.n, allPermissions,
                             Append(createdRolePermissions, a.row), t)

(* assignDefaultRolePermissions as a function of the two tables: seed      *)
(* first (a thrown error is rethrown), then read the catalog, then loop.   *)
assignDefaultRolePermissionsResult(perms, pn, rps, rn, t) ==
    LET seeded == seedDefaultPermissionsResult(perms, pn, t)
    IN  IF seeded.err # Null
        THEN [err |-> seeded.err, perms |-> seeded.tbl, pn |-> seeded.n,
              rps |-> rps, rn |-> rn, ret |-> <<>>]
        ELSE LET looped == AssignLoop(1, rps, rn, seeded.tbl, <<>>, t)
             IN  [err |-> Null, perms |-> seeded.tbl, pn |-> seeded.n,
                  rps |-> looped.tbl, rn |-> looped.n, ret |-> looped.ret]

assignDefaultRolePermissions ==
    /\ hist.assign < MaxCalls
    /\ LET r == assignDefaultRolePermissionsResult(
                    permissions, seq.permissions, role_permissions, seq.role_permissions, now)
       IN  /\ permissions' = r.perms
           /\ role_permissions' = r.rps
           /\ seq' = [seq EXCEPT !.permissions = r.pn, !.role_permissions = r.rn]
           /\ last' = [op |-> "assignDefaultRolePermissions", err |-> r.err, ret |-> r.ret]
           /\ hist' = [hist EXCEPT !.assign = @ + 1, !.assignLen = Len(r.ret)]
    /\ UNCHANGED <<restaurants, users, subscriptions, customers, now, tasks>>

----------------------------------------------------------------------------
(* get_permissions.ts *)

(* rolePermissionsTable INNER JOIN permissionsTable ON permission_id = id  *)
(* WHERE role = role, then results.map(result => result.permissions).      *)
getPermissionsByRoleResult_AnyRole(rps, perms, role) ==
    Flatten([i \in 1..Len(rps) |->
               SelectSeq(perms, LAMBDA p : rps[i].permission_id = p.id)])

getPermissionsByRoleResult(rps, perms, role) ==
    Flatten([i \in 1..Len(rps) |->
               IF rps[i].role = role
               THEN SelectSeq(perms, LAMBDA p : rps[i].permission_id = p.id)
               ELSE <<>>])

getPermissionsByRole(role) ==
    /\ last' = [op |-> "getPermissionsByRole", role |-> role, err |-> Null,
                ret |-> getPermissionsByRoleResult(role_permissions, permissions, role)]
    /\ UNCHANGED <<permissions, role_permissions, restaurants, users, subscriptions,
                   customers, seq, now, hist, tasks>>

----------------------------------------------------------------------------
(* Rows the tests put into permissionsTable directly, before the handlers  *)
(* run (get_permissions.test.ts): a default name or a name of their own.   *)

FixturePermissionNames ==
    {"staff:delete", "reports:read", "read_customers"}

FixturePermissionValues(name) ==
    IF \E i \in 1..Len(DEFAULT_PERMISSIONS) : DEFAULT_PERMISSIONS[i].name = name
    THEN DEFAULT_PERMISSIONS[CHOOSE i \in 1..Len(DEFAULT_PERMISSIONS) :
                                DEFAULT_PERMISSIONS[i].name = name]
    ELSE [name |-> name, description |-> "Can read customer data",
          resource |-> "customers", action |-> "read"]

InsertPermissionFixture(name) ==
    /\ hist.fixtures < MaxFixturePermissions
    /\ LET ins == InsertPermission(permissions, seq.permissions,
                                   FixturePermissionValues(name), now)
       IN  /\ permissions' = ins.tbl
           /\ seq' = [seq EXCEPT !.permissions = ins.n]
           /\ last' = [op |-> "insertPermission", name |-> name, err |-> ins.err]
    /\ hist' = [hist EXCEPT !.fixtures = @ + 1]
    /\ UNCHANGED <<role_permissions, restaurants, users, subscriptions, customers, now,
                   tasks>>

----------------------------------------------------------------------------
(* create_customer.ts, get_customers.ts, update_customer.ts *)

(* x || null of an optional input field: absent, null and "" give null. *)
OrNull(input, field) ==
    IF field \in DOMAIN input /\ input[field] # Null /\ input[field] # ""
    THEN input[field]
    ELSE Null

(* new Date(d) of a Date d: a copy carrying the same instant. *)
NewDate(d) ==
    d

createCustomerResult(tbl, n, input, t) ==
    LET row == [id |-> n,
                restaurant_id |-> input.restaurant_id,
                first_name |-> input.first_name,
                last_name |-> input.last_name,
                email |-> OrNull(input, "email"),
                phone |-> OrNull(input, "phone"),
                loyalty_points |-> 0,
                total_visits |-> 0,
                last_visit_date |-> NullNum,
                notes |-> OrNull(input, "notes"),
                is_active |-> TRUE,
                created_at |-> t,
                updated_at |-> t]
    IN  [err |-> Null, tbl |-> Append(tbl, row), n |-> n + 1, ret |-> row]

CustomerDates(customer) ==
    [customer EXCEPT !.created_at = NewDate(customer.created_at),
                     !.updated_at = NewDate(customer.updated_at),
                     !.last_visit_date = IF customer.last_visit_date # NullNum
                                         THEN NewDate(customer.last_visit_date)
                                         ELSE NullNum]

getCustomerResult_AnyTenant(tbl, customerId, restaurantId) ==
    LET results == SelectSeq(tbl, LAMBDA c : c.id = customerId)
    IN  IF Len(results) = 0 THEN NullRow ELSE CustomerDates(results[1])

getCustomerResult(tbl, customerId, restaurantId) ==
    LET results == SelectSeq(tbl, LAMBDA c : c.id = customerId
                                             /\ c.restaurant_id = restaurantId)
    IN  IF Len(results) = 0 THEN NullRow ELSE CustomerDates(results[1])

(* The orders ORDER BY created_at DESC allows: rows of equal created_at    *)
(* may come in either order.                                               *)
DescByCreatedAt(rows) ==
    {p \in [1..Len(rows) -> 1..Len(rows)] :
        /\ \A i, j \in 1..Len(rows) : i # j => p[i] # p[j]
        /\ \A i, j \in 1..Len(rows) :
              i < j => rows[p[i]].created_at >= rows[p[j]].created_at}

(* getCustomersByRestaurant for one of the allowed orders p of the rows    *)
(* the WHERE clause keeps.                                                 *)
Paginate(sorted, input) ==
    LET limit == IF "limit" \in DOMAIN input /\ input.limit # 0 THEN input.limit ELSE 50
        offset == IF "offset" \in DOMAIN input /\ input.offset # 0 THEN input.offset ELSE 0
        hi == IF offset + limit < Len(sorted) THEN offset + limit ELSE Len(sorted)
    IN  SubSeq(sorted, offset + 1, hi)

CustomersOf(tbl, restaurantId) ==
    SelectSeq(tbl, LAMBDA c : c.restaurant_id = restaurantId)

getCustomersByRestaurantResults(tbl, input) ==
    LET rows == CustomersOf(tbl, input.restaurant_id)
    IN  {Paginate([i \in 1..Len(rows) |-> CustomerDates(rows[p[i]])], input) :
            p \in DescByCreatedAt(rows)}

CustomerUpdatableFields ==
    {"first_name", "last_name", "email", "phone", "loyalty_points", "notes", "is_active"}

CustomerUpdateData_NoStamp(input, t) ==
    [f \in DOMAIN input \cap CustomerUpdatableFields |-> input[f]]

(* An updateData that counted the update as a visit. *)
CustomerUpdateData_CountsVisit(input, t) ==
    [f \in (DOMAIN input \cap CustomerUpdatableFields) \cup {"updated_at", "total_visits"} |->
        IF f = "updated_at" THEN t ELSE IF f = "total_visits" THEN 1 ELSE input[f]]

(* updateData of lines 22-46: updated_at, and each field the input gives   *)
(* (a field of value undefined is a field the input does not have).        *)
CustomerUpdateData(input, t) ==
    [f \in (DOMAIN input \cap CustomerUpdatableFields) \cup {"updated_at"} |->
        IF f = "updated_at" THEN t ELSE input[f]]

ApplyUpdate(row, updateData) ==
    [f \in DOMAIN row |-> IF f \in DOMAIN updateData THEN updateData[f] ELSE row[f]]

CustomerNotFound ==
    "Customer not found or does not belong to this restaurant"

(* The rows the existence check and the UPDATE's WHERE clause select. *)
CustomerMatch_AnyTenant(c, id, restaurantId) ==
    c.id = id

CustomerMatch(c, id, restaurantId) ==
    c.id = id /\ c.restaurant_id = restaurantId

updateCustomerResult_Reveals(tbl, input, restaurantId, t) ==
    LET existingCustomer == SelectSeq(tbl, LAMBDA c : CustomerMatch(c, input.id, restaurantId))
    IN  IF Len(existingCustomer) = 0
        THEN IF \E i \in 1..Len(tbl) : tbl[i].id = input.id
             THEN [err |-> "Customer belongs to another restaurant", tbl |-> tbl, ret |-> NullRow]
             ELSE [err |-> CustomerNotFound, tbl |-> tbl, ret |-> NullRow]
        ELSE LET updated == [i \in 1..Len(tbl) |->
                               IF CustomerMatch(tbl[i], input.id, restaurantId)
                               THEN ApplyUpdate(tbl[i], CustomerUpdateData(input, t))
                               ELSE tbl[i]]
             IN  [err |-> Null, tbl |-> updated,
                  ret |-> SelectSeq(updated, LAMBDA c : CustomerMatch(c, input.id, restaurantId))[1]]

updateCustomerResult(tbl, input, restaurantId, t) ==
    LET existingCustomer == SelectSeq(tbl, LAMBDA c : CustomerMatch(c, input.id, restaurantId))
    IN  IF Len(existingCustomer) = 0
        THEN [err |-> CustomerNotFound, tbl |-> tbl, ret |-> NullRow]
        ELSE LET updateData == CustomerUpdateData(input, t)
                 updated == [i \in 1..Len(tbl) |->
                               IF CustomerMatch(tbl[i], input.id, restaurantId)
                               THEN ApplyUpdate(tbl[i], updateData)
                               ELSE tbl[i]]
                 result == SelectSeq(updated, LAMBDA c : CustomerMatch(c, input.id, restaurantId))
             IN  IF Len(result) = 0
                 THEN [err |-> "Failed to update customer", tbl |-> updated, ret |-> NullRow]
                 ELSE [err |-> Null, tbl |-> updated, ret |-> result[1]]

RestaurantIds ==
    {1, 2}

CreateCustomerInputs ==
    UNION {{ [restaurant_id |-> r, first_name |-> "John", last_name |-> "Doe"],
             [restaurant_id |-> r, first_name |-> "John", last_name |-> "Doe",
              email |-> "john@example.com", phone |-> "", notes |-> Null] }
           : r \in RestaurantIds}

UpdateCustomerInputs ==
    UNION {{ [id |-> i],
             [id |-> i, loyalty_points |-> 150],
             [id |-> i, first_name |-> "Jane", email |-> Null, is_active |-> FALSE] }
           : i \in 1..(MaxCustomers + 1)}

GetCustomersInputs ==
    UNION {{ [restaurant_id |-> r],
             [restaurant_id |-> r, limit |-> 1, offset |-> 1] }
           : r \in RestaurantIds}

createCustomer(input) ==
    /\ Len(customers) < MaxCustomers
    /\ LET r == createCustomerResult(customers, seq.customers, input, now)
       IN  /\ customers' = r.tbl
           /\ seq' = [seq EXCEPT !.customers = r.n]
           /\ last' = [op |-> "createCustomer", input |-> input, err |-> r.err, ret |-> r.ret]
    /\ UNCHANGED <<permissions, role_permissions, restaurants, users, subscriptions,
                   now, hist, tasks>>

getCustomer(customerId, restaurantId) ==
    /\ last' = [op |-> "getCustomer", customerId |-> customerId,
                restaurantId |-> restaurantId, err |-> Null,
                ret |-> getCustomerResult(customers, customerId, restaurantId)]
    /\ UNCHANGED <<permissions, role_permissions, restaurants, users, subscriptions,
                   customers, seq, now, hist, tasks>>

getCustomersByRestaurant(input) ==
    /\ \E ret \in getCustomersByRestaurantResults(customers, input) :
          last' = [op |-> "getCustomersByRestaurant", input |-> input, err |-> Null,
                   ret |-> ret]
    /\ UNCHANGED <<permissions, role_permissions, restaurants, users, subscriptions,
                   customers, seq, now, hist, tasks>>

updateCustomer(input, restaurantId) ==
    /\ LET r == updateCustomerResult(customers, input, restaurantId, now)
       IN  /\ customers' = r.tbl
           /\ last' = [op |-> "updateCustomer", input |-> input,
                       restaurantId |-> restaurantId, err |-> r.err, ret |-> r.ret]
    /\ UNCHANGED <<permissions, role_permissions, restaurants, users, subscriptions,
                   seq, now, hist, tasks>>

----------------------------------------------------------------------------
(* create_user (create_restaurant.ts:39-71), authenticate_user.ts,         *)
(* update_user (update_restaurant.ts:82-117)                               *)

(* A hex string is a sequence of tokens: a salt from randomBytes(16) is    *)
(* <<"s1">>, the digest sha256(password + salt) is <<"sha256", password>>  *)
(* followed by the salt's tokens (distinct inputs give distinct digests).  *)
(* A stored password_hash is the sequence of the components that ':'       *)
(* separates, so split(':') is the identity on it and joining with ':'     *)
(* is building the sequence.                                               *)
Salts ==
    {<<"s1">>, <<"s2">>}

hashPassword(password, salt) ==
    <<"sha256", password>> \o salt

(* Buffer.from(x, 'hex').length: 32 bytes for a sha256 digest, 16 for a    *)
(* salt, 0 for text that is not hex.                                       *)
HexBytes(x) ==
    IF Len(x) = 0 THEN 0
    ELSE IF x[1] = "sha256" THEN 32
    ELSE IF x \in Salts THEN 16
    ELSE 0

(* crypto.timingSafeEqual: throws when the byte lengths differ. *)
timingSafeEqual(a, b) ==
    IF HexBytes(a) # HexBytes(b)
    THEN [threw |-> TRUE, value |-> FALSE]
    ELSE [threw |-> FALSE, value |-> (a = b)]

(* The try block of verifyPassword, lines 15-27: [salt, hash] are the      *)
(* first two components; a missing or empty one is falsy.                  *)
VerifyPasswordTry(password, storedHash) ==
    IF \/ Len(storedHash) < 2
       \/ Len(storedHash[1]) = 0
       \/ Len(storedHash[2]) = 0
    THEN [threw |-> FALSE, value |-> FALSE]
    ELSE LET salt == storedHash[1]
             hash == storedHash[2]
             computedHash == hashPassword(password, salt)
         IN  timingSafeEqual(hash, computedHash)

verifyPassword_NoCatch(password, storedHash) ==
    VerifyPasswordTry(password, storedHash)

(* verifyPassword: the catch of lines 28-30 turns a throw into false. *)
verifyPassword(password, storedHash) ==
    LET r == VerifyPasswordTry(password, storedHash)
    IN  [threw |-> FALSE, value |-> IF r.threw THEN FALSE ELSE r.value]

authenticateUserResult(tbl, input) ==
    LET found == SelectSeq(tbl, LAMBDA u : u.email = input.email)
    IN  IF Len(found) = 0
        THEN [err |-> Null, ret |-> NullRow]
        ELSE LET user == found[1]
             IN  IF ~user.is_active
                 THEN [err |-> Null, ret |-> NullRow]
                 ELSE LET isPasswordValid == verifyPassword(input.password, user.password_hash)
                      IN  IF isPasswordValid.threw
                          THEN [err |-> "RangeError", ret |-> NullRow]
                          ELSE IF ~isPasswordValid.value
                          THEN [err |-> Null, ret |-> NullRow]
                          ELSE [err |-> Null,
                                ret |-> [id |-> user.id,
                                         email |-> user.email,
                                         password_hash |-> user.password_hash,
                                         first_name |-> user.first_name,
                                         last_name |-> user.last_name,
                                         role |-> user.role,
                                         restaurant_id |-> user.restaurant_id,
                                         is_active |-> user.is_active,
                                         created_at |-> user.created_at,
                                         updated_at |-> user.updated_at]]

(* The insert into a users table whose email column had no unique          *)
(* constraint.                                                             *)
InsertUser_NoUnique(tbl, n, v) ==
    LET row == [id |-> n] @@ v
    IN  [err |-> Null, tbl |-> Append(tbl, row), n |-> n + 1, ret |-> row]

(* db.insert(usersTable).values(v).returning(): the serial id is drawn     *)
(* first, then the unique constraint on email decides.                     *)
InsertUser(tbl, n, v) ==
    LET row == [id |-> n] @@ v
    IN  IF \E i \in 1..Len(tbl) : tbl[i].email = v.email
        THEN [err |-> "unique_violation", tbl |-> tbl, n |-> n + 1, ret |-> NullRow]
        ELSE [err |-> Null, tbl |-> Append(tbl, row), n |-> n + 1, ret |-> row]

(* The digest createUser stores, line 48: hash, ':', salt. *)
CreateUserDigest(password, salt) ==
    <<hashPassword(password, salt), salt>>

createUserResult(tbl, n, input, salt, t) ==
    InsertUser(tbl, n,
        [email |-> input.email,
         password_hash |-> CreateUserDigest(input.password, salt),
         first_name |-> input.first_name,
         last_name |-> input.last_name,
         role |-> IF "role" \in DOMAIN input THEN input.role ELSE "STAFF",
         restaurant_id |-> IF "restaurant_id" \in DOMAIN input /\ input.restaurant_id # 0
                           THEN input.restaurant_id ELSE NullNum,
         is_active |-> TRUE,
         created_at |-> t,
         updated_at |-> t])

UserUpdatableFields ==
    {"email", "first_name", "last_name", "role", "restaurant_id", "is_active"}

UserUpdateFields(input, t) ==
    [f \in (DOMAIN input \cap UserUpdatableFields) \cup {"updated_at"} |->
        IF f = "updated_at" THEN t ELSE input[f]]

updateUserResult(tbl, input, t) ==
    LET updateFields == UserUpdateFields(input, t)
        hits == {i \in 1..Len(tbl) : tbl[i].id = input.id}
        updated == [i \in 1..Len(tbl) |->
                      IF i \in hits THEN ApplyUpdate(tbl[i], updateFields) ELSE tbl[i]]
    IN  IF \E i, j \in 1..Len(updated) : i # j /\ updated[i].email = updated[j].email
        THEN [err |-> "unique_violation", tbl |-> tbl, ret |-> NullRow]
        ELSE IF hits = {}
        THEN [err |-> "User with id " \o ToString(input.id) \o " not found",
              tbl |-> tbl, ret |-> NullRow]
        ELSE [err |-> Null, tbl |-> updated, ret |-> updated[CHOOSE i \in hits : TRUE]]

Passwords ==
    {"password123", "wrongpassword"}

Emails ==
    {"john@example.com", "admin@example.com"}

CreateUserInputs ==
    { [email |-> "john@example.com", password |-> "password123",
       first_name |-> "John", last_name |-> "Doe", role |-> "STAFF", restaurant_id |-> 1],
      [email |-> "john@example.com", password |-> "password123",
       first_name |-> "John", last_name |-> "Doe"],
      [email |-> "admin@example.com", password |-> "password123",
       first_name |-> "Super", last_name |-> "Admin", role |-> "SUPER_ADMIN"] }

UpdateUserInputs ==
    UNION {{ [id |-> i, is_active |-> FALSE],
             [id |-> i, role |-> "MANAGER"],
             [id |-> i, restaurant_id |-> NullNum],
             [id |-> i, email |-> "admin@example.com"] }
           : i \in 1..(MaxUsers + 1)}

LoginInputs ==
    [email : Emails \cup {"JOHN@EXAMPLE.COM"}, password : Passwords]

createUser(input, salt) ==
    /\ seq.users <= MaxUsers
    /\ LET r == createUserResult(users, seq.users, input, salt, now)
       IN  /\ users' = r.tbl
           /\ seq' = [seq EXCEPT !.users = r.n]
           /\ last' = [op |-> "createUser", input |-> input, err |-> r.err, ret |-> r.ret]
           /\ hist' = IF r.err = Null
                      THEN [hist EXCEPT !.createdPw = @ \cup {<<r.ret.id, input.password>>}]
                      ELSE hist
    /\ UNCHANGED <<permissions, role_permissions, restaurants, subscriptions, customers, now,
                   tasks>>

updateUser(input) ==
    /\ LET r == updateUserResult(users, input, now)
       IN  /\ users' = r.tbl
           /\ last' = [op |-> "updateUser", input |-> input, err |-> r.err, ret |-> r.ret]
    /\ UNCHANGED <<permissions, role_permissions, restaurants, subscriptions, customers,
                   seq, now, hist, tasks>>

authenticateUser(input) ==
    /\ LET r == authenticateUserResult(users, input)
       IN  /\ last' = [op |-> "authenticateUser", input |-> input, err |-> r.err, ret |-> r.ret]
           /\ hist' = IF r.ret # NullRow
                      THEN [hist EXCEPT !.logins = @ \cup {r.ret.id}]
                      ELSE hist
    /\ UNCHANGED <<permissions, role_permissions, restaurants, users, subscriptions,
                   customers, seq, now, tasks>>

(* The users authenticate_user.test.ts stores directly: createPasswordHash *)
(* of lines 10-14 writes salt, ':', hash.                                  *)
createPasswordHash(password, salt) ==
    <<salt, hashPassword(password, salt)>>

InsertUserFixture(salt) ==
    /\ seq.users <= MaxUsers
    /\ LET r == InsertUser(users, seq.users,
                    [email |-> "john@example.com",
                     password_hash |-> createPasswordHash("password123", salt),
                     first_name |-> "John",
                     last_name |-> "Doe",
                     role |-> "STAFF",
                     restaurant_id |-> 1,
                     is_active |-> TRUE,
                     created_at |-> now,
                     updated_at |-> now])
       IN  /\ users' = r.tbl
           /\ seq' = [seq EXCEPT !.users = r.n]
           /\ last' = [op |-> "insertUser", err |-> r.err, ret |-> r.ret]
    /\ UNCHANGED <<permissions, role_permissions, restaurants, subscriptions, customers,
                   now, hist, tasks>>

----------------------------------------------------------------------------
(* create_restaurant.ts:1-38, create_subscription (create_customer.ts:29-70) *)

(* db.insert(subscriptionsTable).values(v): the columns v leaves out take  *)
(* the table's defaults (tier FREE, status ACTIVE, null, defaultNow()).    *)
InsertSubscription(tbl, n, v, t) ==
    LET col(name, default) == IF name \in DOMAIN v THEN v[name] ELSE default
        row == [id |-> n,
                restaurant_id |-> v.restaurant_id,
                tier |-> col("tier", "FREE"),
                status |-> col("status", "ACTIVE"),
                stripe_subscription_id |-> col("stripe_subscription_id", Null),
                stripe_customer_id |-> col("stripe_customer_id", Null),
                current_period_start |-> col("current_period_start", NullNum),
                current_period_end |-> col("current_period_end", NullNum),
                created_at |-> t,
                updated_at |-> t]
    IN  [tbl |-> Append(tbl, row), n |-> n + 1, ret |-> row]

InsertRestaurant(tbl, n, v, t) ==
    LET row == [id |-> n,
                name |-> v.name,
                description |-> v.description,
                email |-> v.email,
                phone |-> v.phone,
                address |-> v.address,
                logo_url |-> v.logo_url,
                brand_color |-> v.brand_color,
                is_active |-> v.is_active,
                created_at |-> t,
                updated_at |-> t]
    IN  [tbl |-> Append(tbl, row), n |-> n + 1, ret |-> row]

(* The values of the subscription createRestaurant adds, lines 26-30. *)
DefaultSubscription_Paid(restaurantId) ==
    [restaurant_id |-> restaurantId, tier |-> "BASIC", status |-> "ACTIVE"]

DefaultSubscription(restaurantId) ==
    [restaurant_id |-> restaurantId, tier |-> "FREE", status |-> "ACTIVE"]

createRestaurantResult(rs, rn, subs, sn, input, t) ==
    LET result == InsertRestaurant(rs, rn,
                      [name |-> input.name,
                       description |-> OrNull(input, "description"),
                       email |-> input.email,
                       phone |-> OrNull(input, "phone"),
                       address |-> OrNull(input, "address"),
                       logo_url |-> OrNull(input, "logo_url"),
                       brand_color |-> OrNull(input, "brand_color"),
                       is_active |-> TRUE], t)
        restaurant == result.ret
        sub == InsertSubscription(subs, sn, DefaultSubscription(restaurant.id), t)
    IN  [err |-> Null, rs |-> result.tbl, rn |-> result.n,
         subs |-> sub.tbl, sn |-> sub.n, ret |-> restaurant]

(* 30 * 24 * 60 * 60 * 1000 ms in the source; the clock here counts        *)
(* seconds, so that the number stays within TLC's integers.                *)
ThirtyDays ==
    30 * 24 * 60 * 60

createSubscriptionResult_NoCheck(rs, subs, sn, input, t1, t2) ==
    LET ins == InsertSubscription(subs, sn,
                   [restaurant_id |-> input.restaurant_id,
                    tier |-> input.tier,
                    status |-> "ACTIVE",
                    stripe_customer_id |-> OrNull(input, "stripe_customer_id"),
                    current_period_start |-> IF input.tier # "FREE" THEN t1 ELSE NullNum,
                    current_period_end |-> IF input.tier # "FREE" THEN t2 + ThirtyDays
                                           ELSE NullNum], t2)
    IN  [err |-> Null, subs |-> ins.tbl, sn |-> ins.n, ret |-> ins.ret]

createSubscriptionResult_PeriodForFree(rs, subs, sn, input, t1, t2) ==
    LET found == SelectSeq(rs, LAMBDA r : r.id = input.restaurant_id)
        ins == InsertSubscription(subs, sn,
                   [restaurant_id |-> input.restaurant_id,
                    tier |-> input.tier,
                    status |-> "ACTIVE",
                    stripe_customer_id |-> OrNull(input, "stripe_customer_id"),
                    current_period_start |-> t1,
                    current_period_end |-> t2 + ThirtyDays], t2)
    IN  IF Len(found) = 0
        THEN [err |-> "Restaurant not found", subs |-> subs, sn |-> sn, ret |-> NullRow]
        ELSE [err |-> Null, subs |-> ins.tbl, sn |-> ins.n, ret |-> ins.ret]

(* createSubscription reads the clock twice: new Date() at t1 for the      *)
(* period's start, Date.now() at t2 >= t1 for its end.                     *)
createSubscriptionResult(rs, subs, sn, input, t1, t2) ==
    LET found == SelectSeq(rs, LAMBDA r : r.id = input.restaurant_id)
    IN  IF Len(found) = 0
        THEN [err |-> "Restaurant not found", subs |-> subs, sn |-> sn, ret |-> NullRow]
        ELSE LET currentPeriodStart == IF input.tier # "FREE" THEN t1 ELSE NullNum
                 currentPeriodEnd == IF input.tier # "FREE" THEN t2 + ThirtyDays ELSE NullNum
                 ins == InsertSubscription(subs, sn,
                            [restaurant_id |-> input.restaurant_id,
                             tier |-> input.tier,
                             status |-> "ACTIVE",
                             stripe_customer_id |-> OrNull(input, "stripe_customer_id"),
                             current_period_start |-> currentPeriodStart,
                             current_period_end |-> currentPeriodEnd], t2)
             IN  [err |-> Null, subs |-> ins.tbl, sn |-> ins.n, ret |-> ins.ret]

CreateRestaurantInputs ==
    { [name |-> "Minimal Restaurant", email |-> "minimal@restaurant.com"],
      [name |-> "Test Restaurant", description |-> "A restaurant for testing",
       email |-> "test@restaurant.com", phone |-> "+1234567890",
       address |-> "123 Test St", logo_url |-> "https://example.com/logo.png",
       brand_color |-> "#FF5733"] }

SubscriptionTiers ==
    {"FREE", "BASIC", "PROFESSIONAL"}

CreateSubscriptionInputs ==
    UNION {{ [restaurant_id |-> r, tier |-> tier],
             [restaurant_id |-> r, tier |-> tier, stripe_customer_id |-> "cus_test123"] }
           : r \in 1..(MaxRestaurants + 1), tier \in SubscriptionTiers}

createRestaurant(input) ==
    /\ Len(restaurants) < MaxRestaurants
    /\ LET r == createRestaurantResult(restaurants, seq.restaurants,
                                       subscriptions, seq.subscriptions, input, now)
       IN  /\ restaurants' = r.rs
           /\ subscriptions' = r.subs
           /\ seq' = [seq EXCEPT !.restaurants = r.rn, !.subscriptions = r.sn]
           /\ last' = [op |-> "createRestaurant", input |-> input, err |-> r.err, ret |-> r.ret]
    /\ UNCHANGED <<permissions, role_permissions, users, customers, now, hist, tasks>>

createSubscription(input, t2) ==
    /\ Len(subscriptions) < MaxSubscriptions
    /\ t2 >= now
    /\ t2 <= MaxTime
    /\ LET r == createSubscriptionResult(restaurants, subscriptions, seq.subscriptions,
                                         input, now, t2)
       IN  /\ subscriptions' = r.subs
           /\ seq' = [seq EXCEPT !.subscriptions = r.sn]
           /\ last' = [op |-> "createSubscription", input |-> input, err |-> r.err, ret |-> r.ret]
    /\ now' = t2
    /\ UNCHANGED <<permissions, role_permissions, restaurants, users, customers, hist,
                   tasks>>

----------------------------------------------------------------------------
(* The tRPC router (index.ts): every procedure is a publicProcedure and    *)
(* createContext() returns {}, so a handler sees the request's input and   *)
(* nothing about who sent it.  caller is the id of the sending user; it is *)
(* recorded in last and reaches no handler.                                *)

RpcGetCustomerInputs ==
    [customerId : 1..(MaxCustomers + 1), restaurantId : RestaurantIds]

RpcUpdateCustomerInputs ==
    [customer : UpdateCustomerInputs, restaurantId : RestaurantIds]

RpcGetCustomer(caller, input) ==
    /\ last' = [op |-> "rpc.getCustomer", caller |-> caller, input |-> input, err |-> Null,
                ret |-> getCustomerResult(customers, input.customerId, input.restaurantId)]
    /\ UNCHANGED <<permissions, role_permissions, restaurants, users, subscriptions,
                   customers, seq, now, hist, tasks>>

RpcGetCustomersByRestaurant(caller, input) ==
    /\ \E ret \in getCustomersByRestaurantResults(customers, input) :
          last' = [op |-> "rpc.getCustomersByRestaurant", caller |-> caller,
                   input |-> input, err |-> Null, ret |-> ret]
    /\ UNCHANGED <<permissions, role_permissions, restaurants, users, subscriptions,
                   customers, seq, now, hist, tasks>>

RpcUpdateCustomer(caller, input) ==
    /\ LET r == updateCustomerResult(customers, input.customer, input.restaurantId, now)
       IN  /\ customers' = r.tbl
           /\ last' = [op |-> "rpc.updateCustomer", caller |-> caller, input |-> input,
                       err |-> r.err, ret |-> r.ret]
    /\ UNCHANGED <<permissions, role_permissions, restaurants, users, subscriptions,
                   seq, now, hist, tasks>>

CallerIds ==
    {users[i].id : i \in 1..Len(users)}

----------------------------------------------------------------------------
(* seed_permissions.ts, one await at a time.  Every db call of a handler   *)
(* is awaited, so another execution's statements can run between any two   *)
(* of them; each statement commits by itself (no transaction is opened).   *)

Executions ==
    {1, 2}

(* An execution: the handler called, the await it stands at, the loop      *)
(* index, and its local variables.  started_seeded records whether the     *)
(* catalog held every default name when the call began.                    *)
IdleTask ==
    [op |-> "none", pc |-> "idle", i |-> 0, err |-> Null,
     createdPermissions |-> <<>>, allPermissions |-> <<>>,
     createdRolePermissions |-> <<>>, started_seeded |-> FALSE]

CatalogSeeded(tbl) ==
    \A k \in 1..Len(DEFAULT_PERMISSIONS) :
        \E j \in 1..Len(tbl) : tbl[j].name = DEFAULT_PERMISSIONS[k].name

(* The scheduler: one execution runs at a time, from one await to the     *)
(* next.  An execution is preempted when another one runs while it is in   *)
(* flight; the model explores the schedules of at most MaxSwitches         *)
(* preemptions.                                                            *)
InFlight(q) ==
    q # 0 /\ tasks[q].pc \notin {"idle", "done", "failed"}

Preempts(p) ==
    hist.running # p /\ InFlight(hist.running)

Scheduled(p) ==
    Preempts(p) => hist.switches < MaxSwitches

Switched(p) ==
    [hist EXCEPT !.running = p,
                 !.switches = IF Preempts(p) THEN @ + 1 ELSE @]

(* createdPermissions.push(row), then the next pass of the for loop or,    *)
(* after the last name, the return; inside assignDefaultRolePermissions    *)
(* the return leads to the select of lines 99-101.                         *)
SeedPushed(t, row) ==
    LET pushed == [t EXCEPT !.createdPermissions = Append(@, row), !.i = @ + 1]
    IN  IF t.i < Len(DEFAULT_PERMISSIONS)
        THEN [pushed EXCEPT !.pc = "seed.select"]
        ELSE IF t.op = "seedDefaultPermissions"
        THEN [pushed EXCEPT !.pc = "done"]
        ELSE [pushed EXCEPT !.pc = "assign.allPermissions"]

StartSeed(p) ==
    /\ Scheduled(p)
    /\ hist' = Switched(p)
    /\ tasks[p].pc = "idle"
    /\ tasks' = [tasks EXCEPT ![p] =
                    [IdleTask EXCEPT !.op = "seedDefaultPermissions", !.pc = "seed.select",
                                     !.i = 1, !.started_seeded = CatalogSeeded(permissions)]]
    /\ UNCHANGED <<permissions, role_permissions, restaurants, users, subscriptions,
                   customers, seq, now, last>>

(* lines 61-66 and 80-82: the select by name and the branch on its result *)
SeedSelectStep(p) ==
    /\ Scheduled(p)
    /\ hist' = Switched(p)
    /\ tasks[p].pc = "seed.select"
    /\ LET t == tasks[p]
           existingPermission ==
               SelectSeq(permissions, LAMBDA r : r.name = DEFAULT_PERMISSIONS[t.i].name)
       IN  tasks' = [tasks EXCEPT ![p] =
                        IF Len(existingPermission) = 0
                        THEN [t EXCEPT !.pc = "seed.insert"]
                        ELSE SeedPushed(t, existingPermission[1])]
    /\ UNCHANGED <<permissions, role_permissions, restaurants, users, subscriptions,
                   customers, seq, now, last>>

(* lines 68-79: the insert; a unique violation is thrown, logged by the    *)
(* catch of lines 87-90 and rethrown to the caller.                        *)
SeedInsertStep(p) ==
    /\ Scheduled(p)
    /\ hist' = Switched(p)
    /\ tasks[p].pc = "seed.insert"
    /\ LET t == tasks[p]
           ins == InsertPermission(permissions, seq.permissions, DEFAULT_PERMISSIONS[t.i], now)
       IN  /\ permissions' = ins.tbl
           /\ seq' = [seq EXCEPT !.permissions = ins.n]
           /\ tasks' = [tasks EXCEPT ![p] =
                           IF ins.err = Null
                           THEN SeedPushed(t, ins.row)
                           ELSE [t EXCEPT !.pc = "failed", !.err = ins.err]]
    /\ UNCHANGED <<role_permissions, restaurants, users, subscriptions, customers,
                   now, last>>

(* An assignDefaultRolePermissions that went to the select of lines 99-101 *)
(* at once, without the seeding of line 96.                                *)
StartAssign_NoSeed(p) ==
    /\ Scheduled(p)
    /\ hist' = Switched(p)
    /\ tasks[p].pc = "idle"
    /\ tasks' = [tasks EXCEPT ![p] =
                    [IdleTask EXCEPT !.op = "assignDefaultRolePermissions",
                                     !.pc = "assign.allPermissions", !.i = 1,
                                     !.started_seeded = CatalogSeeded(permissions)]]
    /\ UNCHANGED <<permissions, role_permissions, restaurants, users, subscriptions,
                   customers, seq, now, last>>

(* assignDefaultRolePermissions begins with await seedDefaultPermissions() *)
StartAssign(p) ==
    /\ Scheduled(p)
    /\ hist' = Switched(p)
    /\ tasks[p].pc = "idle"
    /\ tasks' = [tasks EXCEPT ![p] =
                    [IdleTask EXCEPT !.op = "assignDefaultRolePermissions",
                                     !.pc = "seed.select", !.i = 1,
                                     !.started_seeded = CatalogSeeded(permissions)]]
    /\ UNCHANGED <<permissions, role_permissions, restaurants, users, subscriptions,
                   customers, seq, now, last>>

(* lines 98-106: select all permissions, build permissionMap *)
AssignReadPermissions(p) ==
    /\ Scheduled(p)
    /\ hist' = Switched(p)
    /\ tasks[p].pc = "assign.allPermissions"
    /\ tasks' = [tasks EXCEPT ![p] =
                    [@ EXCEPT !.allPermissions = permissions, !.i = 1, !.pc = "assign.select"]]
    /\ UNCHANGED <<permissions, role_permissions, restaurants, users, subscriptions,
                   customers, seq, now, last>>

(* The next pass of the nested loops, or the return of line 148. *)
AssignAdvanced(t) ==
    IF t.i < Len(AssignPairs)
    THEN [t EXCEPT !.i = @ + 1, !.pc = "assign.select"]
    ELSE [t EXCEPT !.i = @ + 1, !.pc = "done"]

AssignPushed(t, row) ==
    AssignAdvanced([t EXCEPT !.createdRolePermissions = Append(@, row)])

(* lines 113-131 and 142-144: the lookup in permissionMap, the select of   *)
(* the (role, permission_id) pair and the branch on its result.            *)
AssignSelectStep(p) ==
    /\ Scheduled(p)
    /\ hist' = Switched(p)
    /\ tasks[p].pc = "assign.select"
    /\ LET t == tasks[p]
           role == AssignPairs[t.i][1]
           permissionId == PermissionMapGet(t.allPermissions, AssignPairs[t.i][2])
           existingRolePermission ==
               SelectSeq(role_permissions,
                         LAMBDA r : r.role = role /\ r.permission_id = permissionId)
       IN  tasks' = [tasks EXCEPT ![p] =
                        IF permissionId = 0 THEN AssignAdvanced(t)
                        ELSE IF Len(existingRolePermission) = 0
                        THEN [t EXCEPT !.pc = "assign.insert"]
                        ELSE AssignPushed(t, existingRolePermission[1])]
    /\ UNCHANGED <<permissions, role_permissions, restaurants, users, subscriptions,
                   customers, seq, now, last>>

(* lines 133-141: the insert of the pair *)
AssignInsertStep(p) ==
    /\ Scheduled(p)
    /\ hist' = Switched(p)
    /\ tasks[p].pc = "assign.insert"
    /\ LET t == tasks[p]
           ins == InsertRolePermission(role_permissions, seq.role_permissions,
                      AssignPairs[t.i][1],
                      PermissionMapGet(t.allPermissions, AssignPairs[t.i][2]), now)
       IN  /\ role_permissions' = ins.tbl
           /\ seq' = [seq EXCEPT !.role_permissions = ins.n]
           /\ tasks' = [tasks EXCEPT ![p] = AssignPushed(t, ins.row)]
    /\ UNCHANGED <<permissions, restaurants, users, subscriptions, customers,
                   now, last>>

(* appRouter.updateUser, part_003:287-289: updateUser(input) is called     *)
(* with the request's input only.  tenant is the restaurant_id of the      *)
(* sending user's record; it is recorded in last and reaches no handler.   *)
RpcUpdateUser(tenant, input) ==
    /\ LET r == updateUserResult(users, input, now)
       IN  /\ users' = r.tbl
           /\ last' = [op |-> "rpc.updateUser", tenant |-> tenant, input |-> input,
                       err |-> r.err, ret |-> r.ret]
    /\ UNCHANGED <<permissions, role_permissions, restaurants, subscriptions, customers,
                   seq, now, hist, tasks>>

----------------------------------------------------------------------------
(* authenticate_user.test.ts:209-231: a user stored with a password_hash   *)
(* that is not salt ':' hash.                                              *)

(* 'malformed_hash_without_salt'; ':' + hash; salt + ':'; and              *)
(* salt + ':' + hash + ':' + more.                                         *)
MalformedDigests ==
    { << <<"malformed_hash_without_salt">> >>,
      << <<>>, hashPassword("password123", <<>>) >>,
      << <<"s1">>, <<>> >>,
      << <<"s1">>, hashPassword("password123", <<"s1">>), <<"s2">> >> }

InsertMalformedUserFixture(digest) ==
    /\ seq.users <= MaxUsers
    /\ LET r == InsertUser(users, seq.users,
                    [email |-> "john@example.com",
                     password_hash |-> digest,
                     first_name |-> "Malformed",
                     last_name |-> "User",
                     role |-> "STAFF",
                     restaurant_id |-> 1,
                     is_active |-> TRUE,
                     created_at |-> now,
                     updated_at |-> now])
       IN  /\ users' = r.tbl
           /\ seq' = [seq EXCEPT !.users = r.n]
           /\ last' = [op |-> "insertUser", err |-> r.err, ret |-> r.ret]
    /\ UNCHANGED <<permissions, role_permissions, restaurants, subscriptions, customers,
                   now, hist, tasks>>

----------------------------------------------------------------------------
(* get_restaurant (part_006) and update_restaurant.ts:22-81 *)

getRestaurantResult_AnyActive(tbl, restaurantId) ==
    LET results == SelectSeq(tbl, LAMBDA r : r.id = restaurantId)
    IN  IF Len(results) = 0 THEN NullRow ELSE results[1]

getRestaurantResult(tbl, restaurantId) ==
    LET results == SelectSeq(tbl, LAMBDA r : r.id = restaurantId /\ r.is_active = TRUE)
    IN  IF Len(results) = 0 THEN NullRow ELSE results[1]

(* usersTable INNER JOIN restaurantsTable ON users.restaurant_id =         *)
(* restaurants.id, in the order of the users' rows and, for one user, of   *)
(* the restaurants' rows; the result row is the restaurant's columns.      *)
getRestaurantByUserIdResult(utbl, rtbl, userId) ==
    LET joined == Flatten([u \in 1..Len(utbl) |->
                      LET matching == SelectSeq(rtbl, LAMBDA r :
                                          /\ utbl[u].restaurant_id = r.id
                                          /\ utbl[u].id = userId
                                          /\ utbl[u].is_active = TRUE
                                          /\ r.is_active = TRUE)
                      IN  matching])
    IN  IF Len(joined) = 0 THEN NullRow ELSE joined[1]

RestaurantUpdatableFields ==
    {"name", "description", "email", "phone", "address", "logo_url", "brand_color",
     "is_active"}

RestaurantUpdateData_SkipsNull(input, t) ==
    [f \in {g \in DOMAIN input \cap RestaurantUpdatableFields :
                g = "description" => input[g] # Null}
            \cup {"updated_at"} |->
        IF f = "updated_at" THEN t ELSE input[f]]

RestaurantUpdateData(input, t) ==
    [f \in (DOMAIN input \cap RestaurantUpdatableFields) \cup {"updated_at"} |->
        IF f = "updated_at" THEN t ELSE input[f]]

updateRestaurantResult_NoCheck(tbl, input, t) ==
    LET updated == [i \in 1..Len(tbl) |->
                      IF tbl[i].id = input.id
                      THEN ApplyUpdate(tbl[i], RestaurantUpdateData(input, t))
                      ELSE tbl[i]]
        result == SelectSeq(updated, LAMBDA r : r.id = input.id)
    IN  [err |-> Null, tbl |-> updated,
         ret |-> IF Len(result) = 0 THEN NullRow ELSE result[1]]

updateRestaurantResult(tbl, input, t) ==
    LET existingRestaurant == SelectSeq(tbl, LAMBDA r : r.id = input.id)
    IN  IF Len(existingRestaurant) = 0
        THEN [err |-> "Restaurant with ID " \o ToString(input.id) \o " not found",
              tbl |-> tbl, ret |-> NullRow]
        ELSE LET updateData == RestaurantUpdateData(input, t)
                 updated == [i \in 1..Len(tbl) |->
                               IF tbl[i].id = input.id
                               THEN ApplyUpdate(tbl[i], updateData)
                               ELSE tbl[i]]
                 result == SelectSeq(updated, LAMBDA r : r.id = input.id)
             IN  [err |-> Null, tbl |-> updated, ret |-> result[1]]

UpdateRestaurantInputs ==
    UNION {{ [id |-> i, is_active |-> FALSE],
             [id |-> i, is_active |-> TRUE],
             [id |-> i, name |-> "Updated Restaurant Name", description |-> Null] }
           : i \in 1..(MaxRestaurants + 1)}

(* The updates that switch a restaurant off and on. *)
ToggleRestaurantInputs ==
    {input \in UpdateRestaurantInputs : DOMAIN input = {"id", "is_active"}}

(* What the reads have shown so far: visible, the restaurants a read has   *)
(* returned; hidden, those a read withheld after an earlier one returned   *)
(* them.                                                                   *)
Observed(h, restaurantId, ret) ==
    IF ret # NullRow
    THEN [h EXCEPT !.visible = @ \cup {ret.id}]
    ELSE IF restaurantId \in h.visible
    THEN [h EXCEPT !.hidden = @ \cup {restaurantId}]
    ELSE h

getRestaurant(restaurantId) ==
    /\ LET ret == getRestaurantResult(restaurants, restaurantId)
       IN  /\ last' = [op |-> "getRestaurant", restaurantId |-> restaurantId, err |-> Null,
                       ret |-> ret]
           /\ hist' = Observed(hist, restaurantId, ret)
    /\ UNCHANGED <<permissions, role_permissions, restaurants, users, subscriptions,
                   customers, seq, now, tasks>>

(* The restaurant_id of the user's row, 0 when there is no such user. *)
RestaurantOfUser(utbl, userId) ==
    LET hits == {i \in 1..Len(utbl) : utbl[i].id = userId}
    IN  IF hits = {} THEN 0 ELSE utbl[CHOOSE i \in hits : TRUE].restaurant_id

getRestaurantByUserId(userId) ==
    /\ LET ret == getRestaurantByUserIdResult(users, restaurants, userId)
       IN  /\ last' = [op |-> "getRestaurantByUserId", userId |-> userId, err |-> Null,
                       ret |-> ret]
           /\ hist' = Observed(hist, RestaurantOfUser(users, userId), ret)
    /\ UNCHANGED <<permissions, role_permissions, restaurants, users, subscriptions,
                   customers, seq, now, tasks>>

updateRestaurant(input) ==
    /\ LET r == updateRestaurantResult(restaurants, input, now)
       IN  /\ restaurants' = r.tbl
           /\ last' = [op |-> "updateRestaurant", input |-> input, err |-> r.err, ret |-> r.ret]
    /\ UNCHANGED <<permissions, role_permissions, users, subscriptions, customers,
                   seq, now, hist, tasks>>

----------------------------------------------------------------------------
(* get_staff.ts:16-73 *)

(* The orders a SELECT without ORDER BY may return the rows in. *)
AnyOrder(rows) ==
    {p \in [1..Len(rows) -> 1..Len(rows)] :
        \A i, j \in 1..Len(rows) : i # j => p[i] # p[j]}

StaffOf(tbl, restaurantId) ==
    SelectSeq(tbl, LAMBDA u : u.restaurant_id = restaurantId /\ u.role # "SUPER_ADMIN")

getStaffByRestaurantResults(tbl, input) ==
    LET rows == StaffOf(tbl, input.restaurant_id)
    IN  {Paginate([i \in 1..Len(rows) |-> rows[p[i]]], input) : p \in AnyOrder(rows)}

getStaffMemberResult_AnyTenant(tbl, userId, restaurantId) ==
    LET results == SelectSeq(tbl, LAMBDA u : u.id = userId /\ u.role # "SUPER_ADMIN")
    IN  IF Len(results) > 0 THEN results[1] ELSE NullRow

getStaffMemberResult(tbl, userId, restaurantId) ==
    LET results == SelectSeq(tbl, LAMBDA u : /\ u.id = userId
                                             /\ u.restaurant_id = restaurantId
                                             /\ u.role # "SUPER_ADMIN")
    IN  IF Len(results) > 0 THEN results[1] ELSE NullRow

GetStaffInputs ==
    UNION {{ [restaurant_id |-> r],
             [restaurant_id |-> r, limit |-> 1, offset |-> 1] }
           : r \in RestaurantIds}

getStaffByRestaurant(input) ==
    /\ \E ret \in getStaffByRestaurantResults(users, input) :
          last' = [op |-> "getStaffByRestaurant", input |-> input, err |-> Null, ret |-> ret]
    /\ UNCHANGED <<permissions, role_permissions, restaurants, users, subscriptions,
                   customers, seq, now, hist, tasks>>

getStaffMember(userId, restaurantId) ==
    /\ last' = [op |-> "getStaffMember", userId |-> userId, restaurantId |-> restaurantId,
                err |-> Null, ret |-> getStaffMemberResult(users, userId, restaurantId)]
    /\ UNCHANGED <<permissions, role_permissions, restaurants, users, subscriptions,
                   customers, seq, now, hist, tasks>>

(* The updates that move a user to another tenant or to none, and those    *)
(* that change a customer's points.                                        *)
MoveUserInputs ==
    {input \in UpdateUserInputs : "restaurant_id" \in DOMAIN input}

PointsInputs ==
    {input \in UpdateCustomerInputs : DOMAIN input = {"id", "loyalty_points"}}

----------------------------------------------------------------------------
(* update_customer.ts, one await at a time: the select of lines 9-15 and   *)
(* the UPDATE of lines 49-56 are two statements, each committed by itself, *)
(* and other executions' statements can run between them.                  *)

(* An execution of updateCustomer: its arguments, the await it stands at   *)
(* and its locals.  started_found records whether a customer of that id    *)
(* and restaurant was stored when the call began.                          *)
UpdateCustomerTask(input, restaurantId) ==
    [op |-> "updateCustomer", pc |-> "update.select", err |-> Null,
     input |-> input, restaurantId |-> restaurantId,
     existingCustomer |-> <<>>, updateData |-> NullRow, ret |-> NullRow,
     started_found |->
        \E i \in 1..Len(customers) : CustomerMatch(customers[i], input.id, restaurantId)]

StartUpdateCustomer(p, input, restaurantId) ==
    /\ tasks[p].pc = "idle"
    /\ tasks' = [tasks EXCEPT ![p] = UpdateCustomerTask(input, restaurantId)]
    /\ UNCHANGED <<permissions, role_permissions, restaurants, users, subscriptions,
                   customers, seq, now, last, hist>>

(* lines 9-46: the existence check, the throw of line 18, and updateData   *)
(* built with new Date() before the UPDATE is sent.                        *)
UpdateCustomerSelectStep(p) ==
    /\ tasks[p].pc = "update.select"
    /\ LET t == tasks[p]
           existingCustomer ==
               SelectSeq(customers, LAMBDA c : CustomerMatch(c, t.input.id, t.restaurantId))
       IN  tasks' = [tasks EXCEPT ![p] =
                        IF Len(existingCustomer) = 0
                        THEN [t EXCEPT !.pc = "failed", !.err = CustomerNotFound]
                        ELSE [t EXCEPT !.pc = "update.update",
                                       !.existingCustomer = existingCustomer,
                                       !.updateData = CustomerUpdateData(t.input, now)]]
    /\ UNCHANGED <<permissions, role_permissions, restaurants, users, subscriptions,
                   customers, seq, now, last, hist>>

(* An UPDATE that wrote the whole row as the existence check read it, with *)
(* updateData laid over it.                                                *)
UpdateCustomerUpdateStep_WholeRow(p) ==
    /\ tasks[p].pc = "update.update"
    /\ LET t == tasks[p]
           updated == [i \in 1..Len(customers) |->
                         IF CustomerMatch(customers[i], t.input.id, t.restaurantId)
                         THEN ApplyUpdate(t.existingCustomer[1], t.updateData)
                         ELSE customers[i]]
           result == SelectSeq(updated,
                               LAMBDA c : CustomerMatch(c, t.input.id, t.restaurantId))
       IN  /\ customers' = updated
           /\ tasks' = [tasks EXCEPT ![p] =
                           IF Len(result) = 0
                           THEN [t EXCEPT !.pc = "failed", !.err = "Failed to update customer"]
                           ELSE [t EXCEPT !.pc = "done", !.ret = result[1]]]
    /\ UNCHANGED <<permissions, role_permissions, restaurants, users, subscriptions,
                   seq, now, last, hist>>

(* lines 49-63: UPDATE ... SET updateData WHERE id AND restaurant_id        *)
(* RETURNING *, and the throw of line 59 on an empty result.  The SET      *)
(* clause names the columns of updateData only.                            *)
UpdateCustomerUpdateStep(p) ==
    /\ tasks[p].pc = "update.update"
    /\ LET t == tasks[p]
           updated == [i \in 1..Len(customers) |->
                         IF CustomerMatch(customers[i], t.input.id, t.restaurantId)
                         THEN ApplyUpdate(customers[i], t.updateData)
                         ELSE customers[i]]
           result == SelectSeq(updated,
                               LAMBDA c : CustomerMatch(c, t.input.id, t.restaurantId))
       IN  /\ customers' = updated
           /\ tasks' = [tasks EXCEPT ![p] =
                           IF Len(result) = 0
                           THEN [t EXCEPT !.pc = "failed", !.err = "Failed to update customer"]
                           ELSE [t EXCEPT !.pc = "done", !.ret = result[1]]]
    /\ UNCHANGED <<permissions, role_permissions, restaurants, users, subscriptions,
                   seq, now, last, hist>>

(* The updates that give at least one field. *)
FieldUpdateInputs ==
    {input \in UpdateCustomerInputs : DOMAIN input # {"id"}}

----------------------------------------------------------------------------
(* get_subscription.ts *)

(* d || null of lines 24-25: a Date is kept, null stays null. *)
DateOrNull(d) ==
    IF d = NullNum THEN NullNum ELSE d

(* select ... where restaurant_id = r limit 1, lines 9-13: the query has   *)
(* no ORDER BY, so the row the limit keeps is any one of the matching      *)
(* rows.                                                                   *)
getSubscriptionByRestaurantResults(tbl, restaurantId) ==
    LET matching == SelectSeq(tbl, LAMBDA s : s.restaurant_id = restaurantId)
    IN  IF Len(matching) = 0
        THEN {NullRow}
        ELSE {[matching[order[1]] EXCEPT
                  !.current_period_start = DateOrNull(@),
                  !.current_period_end = DateOrNull(@)] : order \in AnyOrder(matching)}

getSubscriptionByRestaurant(restaurantId) ==
    /\ \E ret \in getSubscriptionByRestaurantResults(subscriptions, restaurantId) :
          last' = [op |-> "getSubscriptionByRestaurant", restaurantId |-> restaurantId,
                   err |-> Null, ret |-> ret]
    /\ UNCHANGED <<permissions, role_permissions, restaurants, users, subscriptions,
                   customers, seq, now, hist, tasks>>

----------------------------------------------------------------------------
(* create_restaurant.ts:5-38, one await at a time: the two inserts are two *)
(* statements, each committed by itself (no db.transaction is opened), and *)
(* other executions' statements can run between them.                      *)

CreateRestaurantTask(input) ==
    [op |-> "createRestaurant", pc |-> "create.restaurant", err |-> Null,
     input |-> input, restaurant |-> NullRow, ret |-> NullRow]

StartCreateRestaurant(p, input) ==
    /\ tasks[p].pc = "idle"
    /\ tasks' = [tasks EXCEPT ![p] = CreateRestaurantTask(input)]
    /\ UNCHANGED <<permissions, role_permissions, restaurants, users, subscriptions,
                   customers, seq, now, last, hist>>

(* lines 8-22: the insert into restaurantsTable and result[0] *)
CreateRestaurantInsertStep(p) ==
    /\ tasks[p].pc = "create.restaurant"
    /\ LET t == tasks[p]
           result == InsertRestaurant(restaurants, seq.restaurants,
                         [name |-> t.input.name,
                          description |-> OrNull(t.input, "description"),
                          email |-> t.input.email,
                          phone |-> OrNull(t.input, "phone"),
                          address |-> OrNull(t.input, "address"),
                          logo_url |-> OrNull(t.input, "logo_url"),
                          brand_color |-> OrNull(t.input, "brand_color"),
                          is_active |-> TRUE], now)
       IN  /\ restaurants' = result.tbl
           /\ seq' = [seq EXCEPT !.restaurants = result.n]
           /\ tasks' = [tasks EXCEPT ![p] =
                           [t EXCEPT !.pc = "create.subscription", !.restaurant = result.ret]]
    /\ UNCHANGED <<permissions, role_permissions, users, subscriptions, customers,
                   now, last, hist>>

(* lines 24-33: the insert into subscriptionsTable and the return *)
CreateRestaurantSubscriptionStep(p) ==
    /\ tasks[p].pc = "create.subscription"
    /\ LET t == tasks[p]
           sub == InsertSubscription(subscriptions, seq.subscriptions,
                                     DefaultSubscription(t.restaurant.id), now)
       IN  /\ subscriptions' = sub.tbl
           /\ seq' = [seq EXCEPT !.subscriptions = sub.n]
           /\ tasks' = [tasks EXCEPT ![p] = [t EXCEPT !.pc = "done", !.ret = t.restaurant]]
    /\ UNCHANGED <<permissions, role_permissions, restaurants, users, customers,
                   now, last, hist>>

----------------------------------------------------------------------------
(* The clock *)

Tick ==
    /\ now < MaxTime
    /\ now' = now + 1
    /\ UNCHANGED <<permissions, role_permissions, restaurants, users, subscriptions,
                   customers, seq, last, hist, tasks>>

----------------------------------------------------------------------------
(* Initial state: createDB() leaves six empty tables, serials at 1. *)

FreshSerials ==
    [permissions |-> 1, role_permissions |-> 1, restaurants |-> 1,
     users |-> 1, subscriptions |-> 1, customers |-> 1]

NoHistory ==
    [seed |-> 0, seedIds |-> <<>>, assign |-> 0, assignLen |-> 0, fixtures |-> 0,
     createdPw |-> {}, logins |-> {}, running |-> 0, switches |-> 0,
     visible |-> {}, hidden |-> {}]

Init ==
    /\ permissions = <<>>
    /\ role_permissions = <<>>
    /\ restaurants = <<>>
    /\ users = <<>>
    /\ subscriptions = <<>>
    /\ customers = <<>>
    /\ seq = FreshSerials
    /\ now = 0
    /\ last = NoCall
    /\ hist = NoHistory
    /\ tasks = [p \in Executions |-> IdleTask]

(* The state after one create call on the empty database: one customer,    *)
(* one restaurant with its subscription, or one user.                      *)
InitOneRow ==
    /\ permissions = <<>>
    /\ role_permissions = <<>>
    /\ now = 0
    /\ last = NoCall
    /\ hist = NoHistory
    /\ tasks = [p \in Executions |-> IdleTask]
    /\ \/ \E input \in CreateCustomerInputs :
             LET r == createCustomerResult(<<>>, 1, input, 0)
             IN  /\ customers = r.tbl
                 /\ seq = [FreshSerials EXCEPT !.customers = r.n]
                 /\ restaurants = <<>> /\ subscriptions = <<>> /\ users = <<>>
       \/ \E input \in CreateRestaurantInputs :
             LET r == createRestaurantResult(<<>>, 1, <<>>, 1, input, 0)
             IN  /\ restaurants = r.rs
                 /\ subscriptions = r.subs
                 /\ seq = [FreshSerials EXCEPT !.restaurants = r.rn, !.subscriptions = r.sn]
                 /\ customers = <<>> /\ users = <<>>
       \/ \E input \in CreateUserInputs, salt \in Salts :
             LET r == createUserResult(<<>>, 1, input, salt, 0)
             IN  /\ users = r.tbl
                 /\ seq = [FreshSerials EXCEPT !.users = r.n]
                 /\ customers = <<>> /\ restaurants = <<>> /\ subscriptions = <<>>

(* The empty database, or the state after two createCustomer calls on it.  *)
InitCustomers ==
    \/ Init
    \/ /\ permissions = <<>>
       /\ role_permissions = <<>>
       /\ restaurants = <<>>
       /\ users = <<>>
       /\ subscriptions = <<>>
       /\ now = 0
       /\ last = NoCall
       /\ hist = NoHistory
       /\ tasks = [p \in Executions |-> IdleTask]
       /\ \E first \in CreateCustomerInputs, second \in CreateCustomerInputs :
             LET a == createCustomerResult(<<>>, 1, first, 0)
                 b == createCustomerResult(a.tbl, a.n, second, 0)
             IN  /\ customers = b.tbl
                 /\ seq = [FreshSerials EXCEPT !.customers = b.n]

----------------------------------------------------------------------------
(* The permission catalog and the role mappings, called one after another. *)

NextPerm ==
    \/ seedDefaultPermissions
    \/ assignDefaultRolePermissions
    \/ \E role \in Range(UserRoles) : getPermissionsByRole(role)
    \/ \E name \in FixturePermissionNames : InsertPermissionFixture(name)
    \/ Tick

SpecPerm ==
    Init /\ [][NextPerm]_vars

----------------------------------------------------------------------------
(* Claims about the permission catalog (SpecPerm) *)

DefaultNames ==
    {DEFAULT_PERMISSIONS[i].name : i \in 1..Len(DEFAULT_PERMISSIONS)}

SeedCalled ==
    hist'.seed = hist.seed + 1

AssignCalled ==
    hist'.assign = hist.assign + 1

(* C1: seedDefaultPermissions run any number of times in sequence, on an   *)
(* empty catalog or on one that already holds some default names, leaves   *)
(* exactly one row per default name, and every call returns those 11 rows, *)
(* with the ids the previous call returned.                                *)
C1_SeedIdempotent ==
    /\ [](hist.seed >= 1 =>
            \A name \in DefaultNames :
                Cardinality({i \in 1..Len(permissions) : permissions[i].name = name}) = 1)
    /\ [][SeedCalled =>
            /\ last'.err = Null
            /\ Len(last'.ret) = 11
            /\ \A i \in 1..11 :
                  /\ last'.ret[i].name = DEFAULT_PERMISSIONS[i].name
                  /\ last'.ret[i] \in Range(permissions')
            /\ (hist.seed >= 1 => Ids(last'.ret) = hist.seedIds)]_vars

C1_Witness ==
    /\ hist.seed = 2
    /\ last.op = "seedDefaultPermissions"
    /\ Len(last.ret) = 11
    /\ Len(permissions) = 11
    /\ permissions[1].name = "reports:read"
    /\ last.ret[11].id = 1

(* C2: assignDefaultRolePermissions run any number of times in sequence    *)
(* yields the table one run yields: 30 edges (11, 11, 6, 2 by role), at    *)
(* most one per (role, permission_id), and every call returns as many      *)
(* edges as the call before.                                               *)
C2_AssignIdempotent ==
    /\ [](hist.assign >= 1 =>
            /\ Len(role_permissions) = 30
            /\ \A i, j \in 1..Len(role_permissions) :
                  (/\ role_permissions[i].role = role_permissions[j].role
                   /\ role_permissions[i].permission_id = role_permissions[j].permission_id)
                  => i = j
            /\ LET n(role) == Cardinality({i \in 1..Len(role_permissions) :
                                              role_permissions[i].role = role})
               IN  /\ n("SUPER_ADMIN") = 11
                   /\ n("RESTAURANT_OWNER") = 11
                   /\ n("MANAGER") = 6
                   /\ n("STAFF") = 2)
    /\ [][AssignCalled =>
            /\ last'.err = Null
            /\ Len(last'.ret) = 30
            /\ (hist.assign >= 1 =>
                  /\ Len(last'.ret) = hist.assignLen
                  /\ role_permissions' = role_permissions)]_vars

C2_Witness ==
    /\ hist.assign = 2
    /\ last.op = "assignDefaultRolePermissions"
    /\ Len(last.ret) = 30
    /\ Len(role_permissions) = 30

(* C3: once assignDefaultRolePermissions has run, getPermissionsByRole     *)
(* returns for each role exactly the permissions of the fixed table, each  *)
(* once.                                                                   *)
C3_PermissionsForRole ==
    (hist.assign >= 1 /\ last.op = "getPermissionsByRole") =>
        LET all == {"customers:read", "customers:write", "customers:delete",
                    "staff:read", "staff:write", "staff:delete",
                    "settings:read", "settings:write",
                    "billing:read", "billing:write", "reports:read"}
            expected == [SUPER_ADMIN |-> all,
                         RESTAURANT_OWNER |-> all,
                         MANAGER |-> {"customers:read", "customers:write", "customers:delete",
                                      "staff:read", "staff:write", "reports:read"},
                         STAFF |-> {"customers:read", "reports:read"}]
        IN  /\ {last.ret[i].name : i \in 1..Len(last.ret)} = expected[last.role]
            /\ Len(last.ret) = Cardinality(expected[last.role])

C3_Witness ==
    /\ hist.assign >= 1
    /\ last.op = "getPermissionsByRole"
    /\ last.role = "STAFF"
    /\ Len(last.ret) = 2

----------------------------------------------------------------------------
(* Customers of two restaurants, through the handlers. *)

NextCust ==
    \/ \E input \in CreateCustomerInputs : createCustomer(input)
    \/ \E input \in UpdateCustomerInputs, r \in RestaurantIds : updateCustomer(input, r)
    \/ \E i \in 1..(MaxCustomers + 1), r \in RestaurantIds : getCustomer(i, r)
    \/ \E input \in GetCustomersInputs : getCustomersByRestaurant(input)
    \/ Tick

SpecCust ==
    Init /\ [][NextCust]_vars

(* C4: getCustomer(id, B) returns null when the customer of that id        *)
(* belongs to a restaurant other than B, and returns the customer when B   *)
(* is its restaurant, in every state createCustomer and updateCustomer     *)
(* reach.                                                                  *)
C4_GetCustomerTenantIsolation ==
    /\ \A i \in 1..Len(customers), B \in RestaurantIds :
          getCustomerResult(customers, customers[i].id, B) =
              IF B = customers[i].restaurant_id THEN customers[i] ELSE NullRow
    /\ last.op = "getCustomer" =>
          \A i \in 1..Len(customers) :
              customers[i].id = last.customerId =>
                  last.ret = IF last.restaurantId = customers[i].restaurant_id
                             THEN customers[i] ELSE NullRow

C4_Witness ==
    /\ last.op = "getCustomer"
    /\ last.ret = NullRow
    /\ \E i \in 1..Len(customers) :
          /\ customers[i].id = last.customerId
          /\ customers[i].restaurant_id # last.restaurantId
          /\ customers[i].loyalty_points = 150

(* C5: updateCustomer(input, B) on a customer of restaurant A # B fails    *)
(* with 'Customer not found or does not belong to this restaurant' and     *)
(* leaves the row as it was, updated_at included; with restaurantId = A    *)
(* it succeeds and stores the fields the input gives.                      *)
C5_UpdateCustomerTenantIsolation ==
    [][(last' # last /\ last'.op = "updateCustomer") =>
          \A i \in 1..Len(customers) :
              customers[i].id = last'.input.id =>
                  IF customers[i].restaurant_id # last'.restaurantId
                  THEN /\ last'.err = "Customer not found or does not belong to this restaurant"
                       /\ customers' = customers
                  ELSE /\ last'.err = Null
                       /\ Len(customers') = Len(customers)
                       /\ customers'[i].updated_at = now
                       /\ \A f \in DOMAIN last'.input \ {"id"} :
                             customers'[i][f] = last'.input[f]
                       /\ last'.ret = customers'[i]]_vars

C5_Witness ==
    /\ last.op = "updateCustomer"
    /\ last.err = "Customer not found or does not belong to this restaurant"
    /\ "first_name" \in DOMAIN last.input
    /\ \E i \in 1..Len(customers) :
          /\ customers[i].id = last.input.id
          /\ customers[i].restaurant_id # last.restaurantId
          /\ customers[i].loyalty_points = 150
          /\ customers[i].first_name = "John"
          /\ customers[i].updated_at < now

(* C14: updateCustomer under restaurant B fails in the same way for an id  *)
(* that exists in another restaurant and for an id that exists in none     *)
(* (same error message, same unchanged table, same result), and            *)
(* getCustomer returns null for both, so neither operation tells whether   *)
(* an id exists in another tenant.                                         *)
C14_NotFoundIndistinguishable ==
    /\ \A B \in RestaurantIds, input \in UpdateCustomerInputs, y \in 1..(MaxCustomers + 1) :
          (/\ \E i \in 1..Len(customers) :
                  customers[i].id = input.id /\ customers[i].restaurant_id # B
           /\ \A i \in 1..Len(customers) : customers[i].id # y)
          => LET elsewhere == updateCustomerResult(customers, input, B, now)
                 nowhere == updateCustomerResult(customers, [input EXCEPT !.id = y], B, now)
             IN  /\ elsewhere.err = CustomerNotFound
                 /\ elsewhere = nowhere
                 /\ elsewhere.tbl = customers
                 /\ getCustomerResult(customers, input.id, B) = NullRow
                 /\ getCustomerResult(customers, y, B) = NullRow
    /\ (/\ last.op = "updateCustomer"
        /\ \A i \in 1..Len(customers) :
              ~(customers[i].id = last.input.id /\ customers[i].restaurant_id = last.restaurantId))
       => last.err = CustomerNotFound /\ last.ret = NullRow
    /\ (/\ last.op = "getCustomer"
        /\ \A i \in 1..Len(customers) :
              ~(customers[i].id = last.customerId /\ customers[i].restaurant_id = last.restaurantId))
       => last.ret = NullRow

C14_Witness ==
    /\ last.op = "updateCustomer"
    /\ last.err = CustomerNotFound
    /\ "loyalty_points" \in DOMAIN last.input
    /\ \E i \in 1..Len(customers) :
          /\ customers[i].id = last.input.id
          /\ customers[i].restaurant_id # last.restaurantId
          /\ customers[i].loyalty_points = 0
    /\ \E y \in 1..(MaxCustomers + 1) : \A i \in 1..Len(customers) : customers[i].id # y

----------------------------------------------------------------------------
(* Users: creation, update and login. *)

NextUser ==
    \/ \E input \in CreateUserInputs, salt \in Salts : createUser(input, salt)
    \/ \E salt \in Salts : InsertUserFixture(salt)
    \/ \E input \in UpdateUserInputs : updateUser(input)
    \/ \E input \in LoginInputs : authenticateUser(input)

SpecUser ==
    Init /\ [][NextUser]_vars

(* C7: a user createUser made with password p, still active, logs in with  *)
(* its email and p: authenticateUser returns its full record.              *)
C7_CreatedUserCanLogin ==
    last.op = "authenticateUser" =>
        \A i \in 1..Len(users) :
            (/\ users[i].is_active
             /\ users[i].email = last.input.email
             /\ <<users[i].id, last.input.password>> \in hist.createdPw)
            => last.ret = users[i]

(* C8: authenticateUser returns null and does not throw when no user has   *)
(* exactly the given email, when the user of that email is inactive, or    *)
(* when the password is not the one the stored digest was made from.       *)
C8_AuthFailsWithNull ==
    last.op = "authenticateUser" =>
        LET madeFrom(digest) ==
                {digest[k][2] : k \in {k \in 1..Len(digest) :
                                          Len(digest[k]) >= 2 /\ digest[k][1] = "sha256"}}
        IN  /\ last.err = Null
            /\ (\A i \in 1..Len(users) : users[i].email # last.input.email)
                   => last.ret = NullRow
            /\ \A i \in 1..Len(users) :
                   (/\ users[i].email = last.input.email
                    /\ \/ ~users[i].is_active
                       \/ last.input.password \notin madeFrom(users[i].password_hash))
                   => last.ret = NullRow

C8_Witness ==
    /\ last.op = "authenticateUser"
    /\ last.ret = NullRow
    /\ last.err = Null
    /\ \E i \in 1..Len(users) :
          /\ users[i].email = last.input.email
          /\ users[i].id \in hist.logins
          /\ ~users[i].is_active
          /\ users[i].password_hash =
                 createPasswordHash(last.input.password, users[i].password_hash[1])

(* C9: after createUser and updateUser calls, a stored user has            *)
(* restaurant_id = null exactly when its role is SUPER_ADMIN.              *)
C9_NoTenantIffSuperAdmin ==
    \A i \in 1..Len(users) :
        (users[i].restaurant_id = NullNum) <=> (users[i].role = "SUPER_ADMIN")

(* The call just made would give a second user an email already in use.    *)
WouldDuplicateEmail ==
    /\ last' # last
    /\ \/ /\ last'.op = "createUser"
          /\ \E i \in 1..Len(users) : users[i].email = last'.input.email
       \/ /\ last'.op = "updateUser"
          /\ "email" \in DOMAIN last'.input
          /\ \E i, j \in 1..Len(users) :
                /\ users[i].id = last'.input.id
                /\ users[j].id # last'.input.id
                /\ users[j].email = last'.input.email

(* C24: after any sequence of createUser and updateUser calls no two users *)
(* share an email; a call that would give a second user an email already   *)
(* in use fails with an error and leaves the users table as it was, so the *)
(* email lookup of authenticateUser matches at most one user.              *)
C24_EmailsUnique ==
    [][ /\ \A i, j \in 1..Len(users') :
              i # j => users'[i].email # users'[j].email
        /\ WouldDuplicateEmail => (last'.err # Null /\ users' = users)
        /\ \A e \in Emails :
              Len(SelectSeq(users', LAMBDA u : u.email = e)) <= 1 ]_vars

C24_Witness ==
    /\ last.op = "createUser"
    /\ last.err = "unique_violation"
    /\ Len(users) = 1
    /\ users[1].email = last.input.email
    /\ seq.users = 3

----------------------------------------------------------------------------
(* Customers reached through the router by the users of the system. *)

NextRpc ==
    \/ \E input \in CreateUserInputs, salt \in Salts : createUser(input, salt)
    \/ \E input \in CreateCustomerInputs : createCustomer(input)
    \/ \E caller \in CallerIds, input \in RpcGetCustomerInputs :
          RpcGetCustomer(caller, input)
    \/ \E caller \in CallerIds, input \in GetCustomersInputs :
          RpcGetCustomersByRestaurant(caller, input)
    \/ \E caller \in CallerIds, input \in RpcUpdateCustomerInputs :
          RpcUpdateCustomer(caller, input)
    \/ Tick

SpecRpc ==
    Init /\ [][NextRpc]_vars

(* C6: through the router, a caller who is a non-SUPER_ADMIN user of       *)
(* restaurant B never reads or modifies a customer of another restaurant:  *)
(* getCustomer, getCustomersByRestaurant and updateCustomer are scoped by  *)
(* the restaurant_id of the caller's own user record.                      *)
C6_RpcScopedToCallerTenant ==
    \A u \in 1..Len(users) :
        (/\ last.op \in {"rpc.getCustomer", "rpc.getCustomersByRestaurant",
                         "rpc.updateCustomer"}
         /\ users[u].id = last.caller
         /\ users[u].role # "SUPER_ADMIN"
         /\ users[u].restaurant_id # NullNum)
        => LET B == users[u].restaurant_id
           IN  /\ last.op = "rpc.getCustomer" =>
                     (last.ret = NullRow \/ last.ret.restaurant_id = B)
               /\ last.op = "rpc.getCustomersByRestaurant" =>
                     \A k \in 1..Len(last.ret) : last.ret[k].restaurant_id = B
               /\ last.op = "rpc.updateCustomer" =>
                     (last.err # Null \/ last.ret.restaurant_id = B)

----------------------------------------------------------------------------
(* Restaurants and their subscriptions. *)

NextRest ==
    \/ \E input \in CreateRestaurantInputs : createRestaurant(input)
    \/ \E input \in CreateSubscriptionInputs, t2 \in 0..MaxTime : createSubscription(input, t2)
    \/ Tick

SpecRest ==
    Init /\ [][NextRest]_vars

(* C10: a successful createRestaurant returns a restaurant with            *)
(* is_active = true and adds exactly one subscription row, for the new     *)
(* restaurant: tier FREE, status ACTIVE, null stripe identifiers, null     *)
(* current_period_start and current_period_end.                            *)
C10_CreateRestaurantDefaultSubscription ==
    [][(last' # last /\ last'.op = "createRestaurant" /\ last'.err = Null) =>
          /\ last'.ret.is_active = TRUE
          /\ last'.ret \in Range(restaurants')
          /\ \A i \in 1..Len(restaurants) : restaurants[i].id # last'.ret.id
          /\ \A i \in 1..Len(subscriptions) : subscriptions[i].restaurant_id # last'.ret.id
          /\ Len(subscriptions') = Len(subscriptions) + 1
          /\ SubSeq(subscriptions', 1, Len(subscriptions)) = subscriptions
          /\ LET added == subscriptions'[Len(subscriptions')]
             IN  /\ added.restaurant_id = last'.ret.id
                 /\ added.tier = "FREE"
                 /\ added.status = "ACTIVE"
                 /\ added.stripe_subscription_id = "null"
                 /\ added.stripe_customer_id = "null"
                 /\ added.current_period_start = -1
                 /\ added.current_period_end = -1]_vars

C10_Witness ==
    /\ last.op = "createRestaurant"
    /\ last.err = Null
    /\ last.ret.id = 2
    /\ Len(subscriptions) = 3
    /\ subscriptions[2].tier = "BASIC"
    /\ subscriptions[3].restaurant_id = 2
    /\ subscriptions[3].tier = "FREE"

(* C11: after createRestaurant and createSubscription calls, every         *)
(* restaurant owns at most one subscription whose status is ACTIVE.        *)
C11_AtMostOneActiveSubscription ==
    \A r \in 1..Len(restaurants) :
        Cardinality({i \in 1..Len(subscriptions) :
                        /\ subscriptions[i].restaurant_id = restaurants[r].id
                        /\ subscriptions[i].status = "ACTIVE"}) <= 1

----------------------------------------------------------------------------
(* Two executions of seedDefaultPermissions at once. *)

NextSeedRace ==
    \/ \E p \in Executions : StartSeed(p)
    \/ \E p \in Executions : SeedSelectStep(p)
    \/ \E p \in Executions : SeedInsertStep(p)

SpecSeedRace ==
    Init /\ [][NextSeedRace]_vars

(* C12: when two executions of seedDefaultPermissions interleave, neither  *)
(* raises an error, each returns the 11 entries of the catalog, and once   *)
(* both have returned the table holds exactly one row per default name.    *)
C12_ConcurrentSeedTolerant ==
    /\ \A p \in Executions :
          /\ tasks[p].pc # "failed"
          /\ tasks[p].pc = "done" =>
                [k \in 1..Len(tasks[p].createdPermissions) |->
                    tasks[p].createdPermissions[k].name]
                = [k \in 1..Len(DEFAULT_PERMISSIONS) |-> DEFAULT_PERMISSIONS[k].name]
    /\ (\A p \in Executions : tasks[p].pc = "done") =>
          /\ Len(permissions) = Len(DEFAULT_PERMISSIONS)
          /\ CatalogSeeded(permissions)

----------------------------------------------------------------------------
(* Two executions of assignDefaultRolePermissions at once. *)

NextAssignRace ==
    \/ seedDefaultPermissions
    \/ \E p \in Executions : StartAssign(p)
    \/ \E p \in Executions : SeedSelectStep(p)
    \/ \E p \in Executions : SeedInsertStep(p)
    \/ \E p \in Executions : AssignReadPermissions(p)
    \/ \E p \in Executions : AssignSelectStep(p)
    \/ \E p \in Executions : AssignInsertStep(p)

SpecAssignRace ==
    Init /\ [][NextAssignRace]_vars

(* C13: when the executions of assignDefaultRolePermissions all began on a *)
(* seeded catalog, role_permissions never holds two edges with the same    *)
(* (role, permission_id), and holds exactly 30 edges once they returned.   *)
C13_ConcurrentAssignNoDuplicates ==
    (\A p \in Executions : tasks[p].pc # "idle" => tasks[p].started_seeded) =>
        /\ \A i, j \in 1..Len(role_permissions) :
              (/\ role_permissions[i].role = role_permissions[j].role
               /\ role_permissions[i].permission_id = role_permissions[j].permission_id)
              => i = j
        /\ (\A p \in Executions : tasks[p].pc = "done") => Len(role_permissions) = 30

(* The execution has finished the seeding of line 96 and stands in the     *)
(* edge loops of lines 98-146, or has returned.                            *)
PastSeeding(p) ==
    /\ tasks[p].op = "assignDefaultRolePermissions"
    /\ tasks[p].pc \in {"assign.allPermissions", "assign.select", "assign.insert", "done"}

(* C25: assignDefaultRolePermissions has every one of the 11 default       *)
(* permissions in the catalog before it inserts any role_permissions edge  *)
(* (started on an empty catalog and running alone, it inserted them all    *)
(* itself), and in every state each edge's permission_id is the id of an   *)
(* existing permission row whose name the fixed mapping lists for the      *)
(* edge's role.                                                            *)
C25_CatalogBeforeEdges ==
    /\ \A p \in Executions : PastSeeding(p) => CatalogSeeded(permissions)
    /\ role_permissions # <<>> =>
          /\ CatalogSeeded(permissions)
          /\ Len(permissions) = Len(DEFAULT_PERMISSIONS)
    /\ \A e \in 1..Len(role_permissions) :
          \E j \in 1..Len(permissions) :
              /\ permissions[j].id = role_permissions[e].permission_id
              /\ permissions[j].name \in Range(ROLE_PERMISSION_MAPPINGS[role_permissions[e].role])

C25_Witness ==
    /\ hist.seed = 0
    /\ tasks[2].pc = "idle"
    /\ tasks[1].op = "assignDefaultRolePermissions"
    /\ ~tasks[1].started_seeded
    /\ tasks[1].pc = "done"
    /\ Len(tasks[1].createdPermissions) = Len(DEFAULT_PERMISSIONS)
    /\ Len(permissions) = Len(DEFAULT_PERMISSIONS)
    /\ Len(role_permissions) = Len(AssignPairs)

----------------------------------------------------------------------------
(* Users updated through the router. *)

NextRpcUser ==
    \/ \E input \in CreateUserInputs, salt \in Salts : createUser(input, salt)
    \/ \E tenant \in RestaurantIds, input \in UpdateUserInputs : RpcUpdateUser(tenant, input)
    \/ Tick

SpecRpcUser ==
    Init /\ [][NextRpcUser]_vars

(* C15: updateUser sent by a non-SUPER_ADMIN caller of restaurant B for a  *)
(* user of another restaurant fails and leaves the users table as it was.  *)
C15_UpdateUserTenantScoped ==
    [][(last' # last /\ last'.op = "rpc.updateUser") =>
          \A i \in 1..Len(users) :
              (/\ users[i].id = last'.input.id
               /\ users[i].restaurant_id # NullNum
               /\ users[i].restaurant_id # last'.tenant)
              => (last'.err # Null /\ users' = users)]_vars

----------------------------------------------------------------------------
(* Logins against stored digests of every layout. *)

NextDigest ==
    \/ \E digest \in MalformedDigests : InsertMalformedUserFixture(digest)
    \/ \E salt \in Salts : InsertUserFixture(salt)
    \/ \E input \in UpdateUserInputs : updateUser(input)
    \/ \E input \in LoginInputs : authenticateUser(input)

SpecDigest ==
    Init /\ [][NextDigest]_vars

(* A digest that is not exactly two non-empty components. *)
Malformed(digest) ==
    \/ Len(digest) # 2
    \/ \E k \in 1..Len(digest) : Len(digest[k]) = 0

(* C16: verifyPassword returns false and does not throw for every stored   *)
(* digest that does not split on ':' into exactly two non-empty            *)
(* components, so authenticateUser returns null for a user holding such a  *)
(* digest, whatever the password.                                          *)
C16_MalformedDigestRejected ==
    \A i \in 1..Len(users) :
        Malformed(users[i].password_hash) =>
            /\ \A password \in Passwords :
                  verifyPassword(password, users[i].password_hash)
                      = [threw |-> FALSE, value |-> FALSE]
            /\ (last.op = "authenticateUser" /\ last.input.email = users[i].email)
                   => (last.err = Null /\ last.ret = NullRow)

(* C17: createSubscription with a restaurant_id that no restaurant row has *)
(* fails with 'Restaurant not found', inserts no subscription and leaves   *)
(* every other table as it was.                                            *)
C17_SubscriptionNeedsRestaurant ==
    [][(/\ last' # last
        /\ last'.op = "createSubscription"
        /\ \A i \in 1..Len(restaurants) : restaurants[i].id # last'.input.restaurant_id)
       => /\ last'.err = "Restaurant not found"
          /\ last'.ret = NullRow
          /\ subscriptions' = subscriptions
          /\ UNCHANGED <<permissions, role_permissions, restaurants, users, customers, seq>>]_vars

C17_Witness ==
    /\ last.op = "createSubscription"
    /\ last.err = "Restaurant not found"
    /\ last.input.tier = "BASIC"
    /\ Len(restaurants) = 1
    /\ Len(subscriptions) = 1
    /\ last.input.restaurant_id = 2

(* C18 as stated: every FREE subscription has null current_period_start    *)
(* and current_period_end, and every BASIC or PROFESSIONAL subscription    *)
(* has both set, the end exactly 30 days after the start.                  *)
C18_PeriodExactlyThirtyDays ==
    \A i \in 1..Len(subscriptions) :
        IF subscriptions[i].tier = "FREE"
        THEN /\ subscriptions[i].current_period_start = NullNum
             /\ subscriptions[i].current_period_end = NullNum
        ELSE /\ subscriptions[i].current_period_start # NullNum
             /\ subscriptions[i].current_period_end # NullNum
             /\ subscriptions[i].current_period_end - subscriptions[i].current_period_start
                    = 30 * 24 * 60 * 60

(* C18, amended: every FREE subscription has null period fields, and every *)
(* BASIC or PROFESSIONAL subscription has both set, the end 30 days after  *)
(* the start plus the time that passed between the handler's two readings  *)
(* of the clock: at least 30 days, and no more than 30 days after the row  *)
(* was stamped.                                                            *)
C18_PeriodThirtyDaysFromClock ==
    /\ \A i \in 1..Len(subscriptions) :
          IF subscriptions[i].tier = "FREE"
          THEN /\ subscriptions[i].current_period_start = NullNum
               /\ subscriptions[i].current_period_end = NullNum
          ELSE /\ subscriptions[i].current_period_start # NullNum
               /\ subscriptions[i].current_period_end # NullNum
               /\ subscriptions[i].current_period_end - subscriptions[i].current_period_start
                      >= 30 * 24 * 60 * 60
               /\ subscriptions[i].current_period_end
                      <= subscriptions[i].created_at + 30 * 24 * 60 * 60
    /\ (last.op = "createSubscription" /\ last.err = Null /\ last.input.tier # "FREE")
          => /\ last.ret \in Range(subscriptions)
             /\ last.ret.current_period_start <= now

C18_Witness ==
    /\ last.op = "createSubscription"
    /\ last.err = Null
    /\ last.input.tier = "PROFESSIONAL"
    /\ last.ret.current_period_start = 0
    /\ last.ret.current_period_end = 1 + 30 * 24 * 60 * 60
    /\ \E i \in 1..Len(subscriptions) : subscriptions[i].tier = "FREE"

----------------------------------------------------------------------------
(* Restaurants read by id and by user while they are switched off and on. *)

NextVis ==
    \/ \E input \in CreateRestaurantInputs : createRestaurant(input)
    \/ \E salt \in Salts : InsertUserFixture(salt)
    \/ \E input \in ToggleRestaurantInputs : updateRestaurant(input)
    \/ \E restaurantId \in 1..(MaxRestaurants + 1) : getRestaurant(restaurantId)
    \/ \E userId \in 1..(MaxUsers + 1) : getRestaurantByUserId(userId)

SpecVis ==
    Init /\ [][NextVis]_vars

(* C19: getRestaurant(id) and getRestaurantByUserId(userId) return null    *)
(* whenever the restaurant concerned has is_active = false, whichever user *)
(* asks, and return the restaurant when it is active (for                  *)
(* getRestaurantByUserId, to an active user of it), also after             *)
(* updateRestaurant switched it off and on again.                          *)
C19_InactiveRestaurantInvisible ==
    /\ \A i \in 1..Len(restaurants) :
          /\ getRestaurantResult(restaurants, restaurants[i].id)
                 = IF restaurants[i].is_active THEN restaurants[i] ELSE NullRow
          /\ \A u \in 1..Len(users) :
                users[u].restaurant_id = restaurants[i].id =>
                    getRestaurantByUserIdResult(users, restaurants, users[u].id)
                        = IF restaurants[i].is_active /\ users[u].is_active
                          THEN restaurants[i] ELSE NullRow
    /\ last.op = "getRestaurant" =>
          \A i \in 1..Len(restaurants) :
              restaurants[i].id = last.restaurantId =>
                  last.ret = IF restaurants[i].is_active THEN restaurants[i] ELSE NullRow
    /\ last.op = "getRestaurantByUserId" =>
          \A i \in 1..Len(restaurants), u \in 1..Len(users) :
              (users[u].id = last.userId /\ users[u].restaurant_id = restaurants[i].id) =>
                  last.ret = IF restaurants[i].is_active /\ users[u].is_active
                             THEN restaurants[i] ELSE NullRow

C19_Witness ==
    /\ last.op = "getRestaurantByUserId"
    /\ last.ret # NullRow
    /\ last.ret.id \in hist.hidden
    /\ last.ret.is_active

----------------------------------------------------------------------------
(* The three partial updates, each on a stored row. *)

NextUpd ==
    \/ \E input \in UpdateCustomerInputs, restaurantId \in RestaurantIds :
          updateCustomer(input, restaurantId)
    \/ \E input \in UpdateRestaurantInputs : updateRestaurant(input)
    \/ \E input \in UpdateUserInputs : updateUser(input)
    \/ Tick

SpecUpd ==
    InitOneRow /\ [][NextUpd]_vars

(* The row of id in a table after an update, seen from the row before:     *)
(* every column the input has holds the input's value, null included;      *)
(* every other column but updated_at holds what it held.                   *)
AppliedExactly(before, after, input) ==
    /\ Len(after) = Len(before)
    /\ \A i \in 1..Len(before) :
          IF before[i].id = input.id
          THEN \A f \in DOMAIN before[i] \ {"updated_at"} :
                  after[i][f] = IF f \in DOMAIN input THEN input[f] ELSE before[i][f]
          ELSE after[i] = before[i]

(* C20: a successful updateCustomer, updateRestaurant or updateUser stores *)
(* exactly the fields its input has: an absent field keeps its stored      *)
(* value, a nullable field given as null becomes null, a field given a     *)
(* value becomes that value.                                               *)
C20_PartialUpdateExact ==
    [][(last' # last /\ last'.err = Null) =>
          /\ last'.op = "updateCustomer" =>
                AppliedExactly(customers, customers', last'.input)
          /\ last'.op = "updateRestaurant" =>
                AppliedExactly(restaurants, restaurants', last'.input)
          /\ last'.op = "updateUser" =>
                AppliedExactly(users, users', last'.input)]_vars

C20_Witness ==
    /\ last.op = "updateRestaurant"
    /\ last.err = Null
    /\ "description" \in DOMAIN last.input
    /\ last.input.description = Null
    /\ last.ret.description = Null
    /\ last.ret.name = "Updated Restaurant Name"
    /\ last.ret.phone = "+1234567890"
    /\ last.ret.is_active = FALSE
    /\ last.ret.updated_at > last.ret.created_at
    /\ last.ret \in Range(restaurants)

(* The rows of id in a table before and after an update: stamped(b, a, t)  *)
(* compares the updated_at of each.                                        *)
UpdatedRows(before, after, id) ==
    {<<before[i], after[i]>> : i \in {i \in 1..Len(before) : before[i].id = id}}

UpdateDone ==
    /\ last' # last
    /\ last'.op \in {"updateCustomer", "updateRestaurant", "updateUser"}
    /\ last'.err = Null

TableOf(op, c, r, u) ==
    IF op = "updateCustomer" THEN c ELSE IF op = "updateRestaurant" THEN r ELSE u

(* C21 as stated: every successful updateCustomer, updateRestaurant or     *)
(* updateUser sets the row's updated_at to the current time, strictly      *)
(* later than the value it had before the call.                            *)
C21_UpdatedAtStrictlyLater ==
    [][UpdateDone =>
          \A pair \in UpdatedRows(TableOf(last'.op, customers, restaurants, users),
                                  TableOf(last'.op, customers', restaurants', users'),
                                  last'.input.id) :
              /\ pair[2].updated_at = now
              /\ pair[2].updated_at > pair[1].updated_at]_vars

(* C21, amended: every successful updateCustomer, updateRestaurant or      *)
(* updateUser sets the row's updated_at to the current time, even when the *)
(* input carries only the id; that is never earlier than the value before  *)
(* the call, and strictly later when the clock has advanced since the row  *)
(* was last stamped.                                                       *)
C21_UpdatedAtIsNow ==
    [][UpdateDone =>
          LET pairs == UpdatedRows(TableOf(last'.op, customers, restaurants, users),
                                   TableOf(last'.op, customers', restaurants', users'),
                                   last'.input.id)
          IN  /\ pairs # {}
              /\ last'.ret.updated_at = now
              /\ \A pair \in pairs :
                    /\ pair[2].updated_at = now
                    /\ pair[2].updated_at >= pair[1].updated_at
                    /\ now > pair[1].updated_at => pair[2].updated_at > pair[1].updated_at]_vars

C21_Witness ==
    /\ last.op = "updateCustomer"
    /\ last.err = Null
    /\ DOMAIN last.input = {"id"}
    /\ last.ret.updated_at = now
    /\ last.ret.updated_at > last.ret.created_at
    /\ last.ret \in Range(customers)

(* C22: updateRestaurant and updateUser called with an id that no row has  *)
(* fail with 'Restaurant with ID <id> not found' and 'User with id <id>    *)
(* not found', and leave every table as it was.                            *)
C22_UpdateMissingIdNotFound ==
    [][(last' # last /\ last'.op \in {"updateRestaurant", "updateUser"}) =>
          LET tbl == TableOf(last'.op, customers, restaurants, users)
          IN  (\A i \in 1..Len(tbl) : tbl[i].id # last'.input.id) =>
                  /\ last'.err = IF last'.op = "updateRestaurant"
                                 THEN "Restaurant with ID " \o ToString(last'.input.id)
                                          \o " not found"
                                 ELSE "User with id " \o ToString(last'.input.id)
                                          \o " not found"
                  /\ last'.ret = NullRow
                  /\ UNCHANGED <<permissions, role_permissions, restaurants, users,
                                 subscriptions, customers, seq>>]_vars

C22_Witness ==
    /\ last.op = "updateUser"
    /\ last.err = "User with id 2 not found"
    /\ "restaurant_id" \in DOMAIN last.input
    /\ Len(users) = 1
    /\ users[1].id = 1
    /\ now > users[1].updated_at

----------------------------------------------------------------------------
(* The lists of one restaurant's customers and staff. *)

NextTenant ==
    \/ \E input \in CreateCustomerInputs : createCustomer(input)
    \/ \E input \in CreateUserInputs : createUser(input, <<"s1">>)
    \/ \E input \in PointsInputs, restaurantId \in RestaurantIds :
          updateCustomer(input, restaurantId)
    \/ \E input \in MoveUserInputs : updateUser(input)
    \/ \E input \in GetCustomersInputs : getCustomersByRestaurant(input)
    \/ \E input \in GetStaffInputs : getStaffByRestaurant(input)
    \/ \E userId \in 1..(MaxUsers + 1), restaurantId \in RestaurantIds :
          getStaffMember(userId, restaurantId)

SpecTenant ==
    Init /\ [][NextTenant]_vars

(* C23: after any creates and updates, getCustomersByRestaurant(r) returns *)
(* only customers whose restaurant_id is r, and getStaffByRestaurant(r)    *)
(* and getStaffMember(id, r) return only users whose restaurant_id is r.   *)
C23_ListsTenantScoped ==
    /\ \A input \in GetCustomersInputs :
          \A ret \in getCustomersByRestaurantResults(customers, input) :
              \A k \in 1..Len(ret) : ret[k].restaurant_id = input.restaurant_id
    /\ \A input \in GetStaffInputs :
          \A ret \in getStaffByRestaurantResults(users, input) :
              \A k \in 1..Len(ret) : ret[k].restaurant_id = input.restaurant_id
    /\ \A userId \in 1..(MaxUsers + 1), r \in RestaurantIds :
          LET ret == getStaffMemberResult(users, userId, r)
          IN  ret # NullRow => ret.restaurant_id = r
    /\ last.op \in {"getCustomersByRestaurant", "getStaffByRestaurant"} =>
          \A k \in 1..Len(last.ret) : last.ret[k].restaurant_id = last.input.restaurant_id
    /\ last.op = "getStaffMember" =>
          (last.ret # NullRow => last.ret.restaurant_id = last.restaurantId)

C23_Witness ==
    /\ last.op = "getStaffMember"
    /\ last.ret = NullRow
    /\ last.restaurantId = 2
    /\ \E u \in 1..Len(users) :
          /\ users[u].id = last.userId
          /\ users[u].restaurant_id = 1
          /\ users[u].role = "STAFF"
    /\ \E c \in 1..Len(customers) : customers[c].restaurant_id = 1

----------------------------------------------------------------------------
(* Executions of updateCustomer at once, among creates and clock ticks. *)

NextCustRace ==
    \/ \E input \in CreateCustomerInputs : createCustomer(input)
    \/ \E p \in Executions, input \in FieldUpdateInputs, r \in RestaurantIds :
          StartUpdateCustomer(p, input, r)
    \/ \E p \in Executions : UpdateCustomerSelectStep(p)
    \/ \E p \in Executions : UpdateCustomerUpdateStep(p)
    \/ Tick

SpecCustRace ==
    Init /\ [][NextCustRace]_vars

(* C26: however the existence check and the UPDATE of updateCustomer are   *)
(* interleaved with other steps, the UPDATE of updateCustomer(input, B)    *)
(* changes no customer row whose restaurant_id is not B when it is applied.*)
C26_UpdateStaysInTenant ==
    [][\A p \in Executions :
          (tasks[p].pc = "update.update" /\ tasks'[p] # tasks[p]) =>
              /\ Len(customers') = Len(customers)
              /\ \A i \in 1..Len(customers) :
                    customers'[i] # customers[i] =>
                        customers[i].restaurant_id = tasks[p].restaurantId]_vars

(* An UPDATE applied after another execution wrote the row the existence   *)
(* check had read.                                                         *)
C26_Witness ==
    \E p \in Executions :
        /\ tasks[p].op = "updateCustomer"
        /\ tasks[p].pc = "done"
        /\ tasks[p].ret.restaurant_id = tasks[p].restaurantId
        /\ tasks[p].ret # ApplyUpdate(tasks[p].existingCustomer[1], tasks[p].updateData)


(* The fields a call provides besides the id. *)
ProvidedFields(input) ==
    DOMAIN input \ {"id"}

(* Two calls on the same customer and restaurant, stored when each began,  *)
(* that provide disjoint fields.                                           *)
DisjointPair(p, q) ==
    /\ p # q
    /\ tasks[p].op = "updateCustomer"
    /\ tasks[q].op = "updateCustomer"
    /\ tasks[p].input.id = tasks[q].input.id
    /\ tasks[p].restaurantId = tasks[q].restaurantId
    /\ tasks[p].started_found
    /\ tasks[q].started_found
    /\ ProvidedFields(tasks[p].input) \cap ProvidedFields(tasks[q].input) = {}

(* C29: two updateCustomer calls on the same customer and restaurant that  *)
(* provide disjoint fields, interleaved in any way, never fail, and once   *)
(* both have returned the row holds the values of both: no update is lost. *)
C29_NoLostUpdate ==
    \A p, q \in Executions :
        DisjointPair(p, q) =>
            /\ tasks[p].pc # "failed"
            /\ (tasks[p].pc = "done" /\ tasks[q].pc = "done") =>
                  \E i \in 1..Len(customers) :
                      /\ customers[i].id = tasks[p].input.id
                      /\ \A f \in ProvidedFields(tasks[p].input) :
                            customers[i][f] = tasks[p].input[f]
                      /\ \A f \in ProvidedFields(tasks[q].input) :
                            customers[i][f] = tasks[q].input[f]

(* Both calls checked before either wrote, and both have returned. *)
C29_Witness ==
    /\ DisjointPair(1, 2)
    /\ tasks[1].pc = "done"
    /\ tasks[2].pc = "done"
    /\ tasks[1].existingCustomer = tasks[2].existingCustomer
    /\ tasks[1].ret # tasks[2].ret
    /\ \A f \in ProvidedFields(tasks[1].input) : customers[1][f] = tasks[1].input[f]
    /\ \A f \in ProvidedFields(tasks[2].input) : customers[1][f] = tasks[2].input[f]

----------------------------------------------------------------------------
(* Subscriptions created and read back. *)

NextSub ==
    \/ \E input \in CreateRestaurantInputs : createRestaurant(input)
    \/ \E input \in CreateSubscriptionInputs, t2 \in 0..MaxTime : createSubscription(input, t2)
    \/ \E r \in 1..(MaxRestaurants + 1) : getSubscriptionByRestaurant(r)

SpecSub ==
    Init /\ [][NextSub]_vars

(* C27: when several subscriptions exist for a restaurant,                 *)
(* getSubscriptionByRestaurant returns the one created first (the lowest   *)
(* id); it returns null only when the restaurant has no subscription row.  *)
C27_ReturnsFirstCreated ==
    last.op = "getSubscriptionByRestaurant" =>
        LET ids == {subscriptions[i].id : i \in
                       {i \in 1..Len(subscriptions) :
                           subscriptions[i].restaurant_id = last.restaurantId}}
        IN  /\ last.ret = NullRow <=> ids = {}
            /\ last.ret # NullRow => \A n \in ids : last.ret.id <= n

----------------------------------------------------------------------------
(* The customer operations on a database of up to two customers. *)

SpecFrame ==
    InitCustomers /\ [][NextCust]_vars

(* The columns no operation writes after the insert. *)
FrozenCustomerFields ==
    {"id", "restaurant_id", "total_visits", "last_visit_date", "created_at"}

(* C28: no operation changes a customer's id, restaurant_id, total_visits, *)
(* last_visit_date or created_at, and none deletes a customer; a           *)
(* successful updateCustomer changes only updated_at and the provided      *)
(* fields of the one row it targets, so no customer changes tenant.        *)
C28_CustomerFrame ==
    [][ /\ Len(customers') >= Len(customers)
        /\ \A i \in 1..Len(customers) :
              /\ \A f \in FrozenCustomerFields : customers'[i][f] = customers[i][f]
              /\ customers'[i] # customers[i] =>
                    /\ last'.op = "updateCustomer"
                    /\ last'.err = Null
                    /\ customers[i].id = last'.input.id
                    /\ customers[i].restaurant_id = last'.restaurantId
                    /\ \A f \in DOMAIN customers[i] :
                          customers'[i][f] # customers[i][f] =>
                              f \in (DOMAIN last'.input \cup {"updated_at"}) \ {"id"} ]_vars

(* A successful update of one of two customers of the same restaurant,     *)
(* the other one as it was created.                                        *)
C28_Witness ==
    /\ last.op = "updateCustomer"
    /\ last.err = Null
    /\ Len(customers) = 2
    /\ customers[1].restaurant_id = customers[2].restaurant_id
    /\ last.input.id = 1
    /\ "loyalty_points" \in DOMAIN last.input
    /\ customers[1].loyalty_points = 150
    /\ customers[1].updated_at > customers[1].created_at
    /\ customers[1].total_visits = 0
    /\ customers[2].loyalty_points = 0
    /\ customers[2].updated_at = customers[2].created_at

----------------------------------------------------------------------------
(* Executions of createRestaurant at once, among reads of subscriptions. *)

NextCreateRace ==
    \/ \E p \in Executions, input \in CreateRestaurantInputs : StartCreateRestaurant(p, input)
    \/ \E p \in Executions : CreateRestaurantInsertStep(p)
    \/ \E p \in Executions : CreateRestaurantSubscriptionStep(p)
    \/ \E r \in 1..(MaxRestaurants + 1) : getSubscriptionByRestaurant(r)
    \/ Tick

SpecCreateRace ==
    Init /\ [][NextCreateRace]_vars

(* C30: createRestaurant is all-or-nothing: in no reachable state, the one *)
(* a read sees between the two inserts included, is there a restaurant     *)
(* that has no subscription row, and no read reports null for a stored     *)
(* restaurant.                                                             *)
C30_CreateRestaurantAllOrNothing ==
    /\ \A i \in 1..Len(restaurants) :
          \E j \in 1..Len(subscriptions) :
              subscriptions[j].restaurant_id = restaurants[i].id
    /\ last.op = "getSubscriptionByRestaurant" =>
          ((\E i \in 1..Len(restaurants) : restaurants[i].id = last.restaurantId)
              => last.ret # NullRow)

====
